---- MODULE Spec2Model ----
(***************************************************************************)
(* State-machine model of the PDF viewer widget (PDFViewer in              *)
(* src/PDFViewerComponent/index.ts), its area selection tool               *)
(* (component/Marking/AreaSelectionTool.tsx, first variant) and the list   *)
(* of selected areas (component/Marking/SelectedAreasList.tsx and the      *)
(* paginated variant src/unnamed/part_000).                                *)
(*                                                                         *)
(* React state is modelled as variables.  An event handler runs to         *)
(* completion and its state updates are committed together; an async       *)
(* function is cut at every await into one action per continuation.  A     *)
(* handler closes over the state of the render in which it was created,    *)
(* which for a handler invoked by a user event is the current state.       *)
(*                                                                         *)
(* Conventions: a nullable value is <<>> (null) or <<v>>; strings that the *)
(* code concatenates or trims are sequences of one-character strings;      *)
(* non-integer numbers are exact fractions <<n, d>> with d > 0; the scale  *)
(* is kept in percent.                                                     *)
(***************************************************************************)
EXTENDS Integers, Sequences, FiniteSets, TLC

-----------------------------------------------------------------------------
(* Bounds of the model *)

\* upper bound on areas in the list plus drag completions in flight
MaxAreas == 2

\* upper bound on loadPDF calls in flight
MaxLoads == 2

-----------------------------------------------------------------------------
(* Nullable values *)

Null == <<>>

Some(v) == <<v>>

IsNull(o) == o = <<>>

Val(o) == o[1]

-----------------------------------------------------------------------------
(* Exact arithmetic on fractions <<n, d>>, d > 0 *)

Abs(i) == IF i < 0 THEN -i ELSE i

Min(a, b) == IF a < b THEN a ELSE b

RECURSIVE Gcd(_, _)
Gcd(a, b) == IF b = 0 THEN a ELSE Gcd(b, a % b)

\* n/d in lowest terms with a positive denominator (n and d are bound to
\* their values once)
Frac(n, d) ==
    CHOOSE r \in { <<p[1] \div Gcd(Abs(p[1]), p[2]), p[2] \div Gcd(Abs(p[1]), p[2])>> :
                      p \in { IF d < 0 THEN <<-n, -d>> ELSE <<n, d>> } } : TRUE

FromInt(i) == <<i, 1>>

RMul(a, b) == Frac(a[1] * b[1], a[2] * b[2])

RDiv(a, b) == Frac(a[1] * b[2], a[2] * b[1])

RAdd(a, b) == Frac(a[1] * b[2] + b[1] * a[2], a[2] * b[2])

RSub(a, b) == Frac(a[1] * b[2] - b[1] * a[2], a[2] * b[2])

RLess(a, b) == a[1] * b[2] < b[1] * a[2]

\* Math.sqrt on the perfect squares the model's text runs use
Sqrt(v) == CHOOSE r \in 0..v : r * r = v

-----------------------------------------------------------------------------
(* Strings as sequences of characters *)

Space == " "

\* String.prototype.trim: the characters from the first to the last one that
\* is not white space
Trim(s) ==
    LET kept == {i \in 1..Len(s) : s[i] # Space}
    IN  IF kept = {} THEN <<>>
        ELSE SubSeq(s, CHOOSE i \in kept : \A j \in kept : i <= j,
                       CHOOSE i \in kept : \A j \in kept : j <= i)

\* 'No text detected in selected area'
NoTextDetected ==
    << "N","o"," ","t","e","x","t"," ","d","e","t","e","c","t","e","d"," ",
       "i","n"," ","s","e","l","e","c","t","e","d"," ","a","r","e","a" >>

\* 'Error extracting text'
ErrorExtractingText ==
    << "E","r","r","o","r"," ","e","x","t","r","a","c","t","i","n","g"," ",
       "t","e","x","t" >>

\* a || b without the fallback
OrElseFirst(a, b) == a

\* a || b on strings: the empty string is falsy
OrElse(a, b) == IF a # <<>> THEN a ELSE b

-----------------------------------------------------------------------------
(* The environment: the files a user can choose and what pdf.js returns    *)
(* for them.  A loaded document is identified with its file.               *)

\* pdf.numPages
NumPagesOf(f) == IF f = 1 THEN 2 ELSE 1

\* size in points of every page at scale 1, rotation 0
PageSize == [width |-> 50, height |-> 60]

\* page.getViewport({scale, rotation}); scale in percent
getViewport(scalePct, rot) ==
    IF rot \in {90, 270}
    THEN [width |-> Frac(PageSize.height * scalePct, 100),
          height |-> Frac(PageSize.width * scalePct, 100)]
    ELSE [width |-> Frac(PageSize.width * scalePct, 100),
          height |-> Frac(PageSize.height * scalePct, 100)]

\* the part of the page, in points from its top-left corner at rotation 0,
\* that a rectangle of canvas pixels covers when the page is rendered with
\* page.getViewport({scale, rotation}): the viewport turns the page clockwise
\* by the rotation and scales it
PageRegion(box, scalePct, rot) ==
    CHOOSE g \in
        { CASE rot = 90  -> [x |-> y, y |-> RSub(FromInt(PageSize.height), RAdd(x, w)),
                             width |-> h, height |-> w]
            [] rot = 180 -> [x |-> RSub(FromInt(PageSize.width), RAdd(x, w)),
                             y |-> RSub(FromInt(PageSize.height), RAdd(y, h)),
                             width |-> w, height |-> h]
            [] rot = 270 -> [x |-> RSub(FromInt(PageSize.width), RAdd(y, h)), y |-> x,
                             width |-> h, height |-> w]
            [] OTHER     -> [x |-> x, y |-> y, width |-> w, height |-> h] :
          x \in {RDiv(box.canvasX, Frac(scalePct, 100))},
          y \in {RDiv(box.canvasY, Frac(scalePct, 100))},
          w \in {RDiv(box.canvasWidth, Frac(scalePct, 100))},
          h \in {RDiv(box.canvasHeight, Frac(scalePct, 100))} } : TRUE

\* a canvas element as mounted: the default size, nothing painted
NewCanvas == [width |-> FromInt(300), height |-> FromInt(150), shows |-> Null]

\* the selection canvas as mounted
NewSelectionCanvas == [width |-> FromInt(300), height |-> FromInt(150), rects |-> {}]

\* (await page.getTextContent()).items: str and the 6-element transform
TextItems(f, p) ==
    IF f = 1 /\ p = 1
    THEN << [str |-> <<"a", "b">>, transform |-> <<4, 0, 0, 4, 2, 52>>],
            [str |-> <<" ">>,      transform |-> <<2, 0, 0, 2, 1, 57>>],
            [str |-> <<"c", "d">>, transform |-> <<2, 0, 0, 2, 8, 50>>] >>
    ELSE IF f = 1 /\ p = 2
    THEN << [str |-> <<" ">>,      transform |-> <<2, 0, 0, 2, 1, 57>>] >>
    ELSE << >>

-----------------------------------------------------------------------------
(* extractTextFromArea, the part after the awaits *)

\* an intersection test that also accepts boxes that only touch
ItemOverlapsTouching(item, area) ==
    \E fontSize \in {Sqrt(item.transform[1] * item.transform[1]
                          + item.transform[2] * item.transform[2])} :
       /\ ~RLess(RAdd(FromInt(item.transform[5]), Frac(Len(item.str) * fontSize, 2)), area.x)
       /\ ~RLess(RAdd(area.x, area.width), FromInt(item.transform[5]))
       /\ ~RLess(FromInt(item.transform[6] + fontSize), area.y)
       /\ ~RLess(RAdd(area.y, area.height), FromInt(item.transform[6]))

\* the intersection test of one text item with the selection area; every
\* local constant of the loop body is bound to its value in turn
ItemOverlaps(item, area) ==
    \E transform \in {item.transform} :
    \E textX \in {FromInt(transform[5])}, textY \in {FromInt(transform[6])},
       fontSize \in {Sqrt(transform[1] * transform[1] + transform[2] * transform[2])} :
    \E textWidth \in {Frac(Len(item.str) * fontSize, 2)}, textHeight \in {FromInt(fontSize)} :
    \E textLeft   \in {textX},      textRight \in {RAdd(textX, textWidth)},
       textBottom \in {textY},      textTop   \in {RAdd(textY, textHeight)},
       areaLeft   \in {area.x},     areaRight \in {RAdd(area.x, area.width)},
       areaBottom \in {area.y},     areaTop   \in {RAdd(area.y, area.height)} :
    LET horizontalOverlap == RLess(areaLeft, textRight) /\ RLess(textLeft, areaRight)
        verticalOverlap   == RLess(areaBottom, textTop) /\ RLess(textBottom, areaTop)
    IN  horizontalOverlap /\ verticalOverlap

\* the forEach loop: extractedText += item.str + ' ' for every matching item
RECURSIVE ExtractedText(_, _)
ExtractedText(items, area) ==
    IF items = <<>> THEN <<>>
    ELSE (IF ItemOverlaps(Head(items), area)
          THEN Head(items).str \o <<Space>>
          ELSE <<>>) \o ExtractedText(Tail(items), area)

\* return extractedText.trim() || 'No text detected in selected area'
\* (extractedText is bound to its value once, as the local variable is)
ExtractResult(items, area) ==
    CHOOSE result \in { OrElse(Trim(extractedText), NoTextDetected) :
                           extractedText \in {ExtractedText(items, area)} } : TRUE

\* how the two awaits of extractTextFromArea end
Resolved == "resolved"

GetPageRejected == "getPage.rejected"

GetTextContentRejected == "getTextContent.rejected"

\* extractTextFromArea as a whole, from its call to the value its promise
\* resolves to: '' without a document, 'Error extracting text' from the catch
\* when an await rejects, and the result of the loop otherwise
extractTextFromArea(doc, area, outcome) ==
    IF doc = 0
    THEN <<>>
    ELSE IF outcome = Resolved
         THEN ExtractResult(TextItems(doc, area.page), area)
         ELSE ErrorExtractingText

-----------------------------------------------------------------------------
(* Inputs of the model *)

\* files offered to the file input
Files == {1}

\* pointer positions in canvas pixels, as returned by getCanvasCoordinates
Points == { [x |-> 0, y |-> 0], [x |-> 11, y |-> 11],
            [x |-> 49, y |-> 3], [x |-> 10, y |-> 11] }

\* values offered by the zoom selector, in percent
ScaleOptions == {100, 200}

\* Date.now() values and Math.random() suffixes an area id is built from
Times == {1, 2}

Rands == {1}

-----------------------------------------------------------------------------
(* State *)

VARIABLES
    \* PDFViewer (index.ts)
    numPages, pageNumber, scale, loading, error, file, pdfDoc, isPDFJSLoaded,
    selectedAreas, isSelectionMode, highlightedArea,
    \* AreaSelectionTool
    isSelecting, startPos, currentPos,
    \* the user's gesture on the overlay: where the button went down and where
    \* the pointer is now; null while no button is held down on the overlay
    drag,
    \* asynchronous calls in flight
    scriptPending,  \* the pdf.js script element is still loading
    loads,          \* loadPDF calls awaiting getDocument: sequence of files
    completions,    \* handleMouseUp calls suspended at an await
    \* the rotation-aware viewer (part_003): the rotation of the display, which
    \* it hands to the selection tool; the viewer of index.ts has none and the
    \* tool works with 0
    rotation,
    \* the selection canvas and the effect that redraws it
    overlay,        \* its size and the rectangles painted on it
    redraws,        \* drawSelectionBoxes calls awaiting getPage
    overlayDeps,    \* the dependencies the redraw effect last ran with
    \* the main canvas and renderPage
    canvas,         \* its size and the render whose output it shows
    renders,        \* renderPage calls suspended at an await
    renderTaskRef,  \* renderTaskRef.current: the call whose task it holds
    renderCount,    \* renderPage calls made so far that passed the guard
    renderDeps,     \* the dependencies the render effect last ran with
    \* the handler or continuation that ran last
    lastOp

viewerVars == <<numPages, pageNumber, scale, loading, error, file, pdfDoc, isPDFJSLoaded>>

markVars == <<selectedAreas, isSelectionMode, highlightedArea>>

gestureVars == <<isSelecting, startPos, currentPos>>

asyncVars == <<scriptPending, loads, completions>>

overlayVars == <<overlay, redraws, overlayDeps>>

renderVars == <<canvas, renders, renderTaskRef, renderCount, renderDeps>>

vars == <<numPages, pageNumber, scale, loading, error, file, pdfDoc, isPDFJSLoaded,
          selectedAreas, isSelectionMode, highlightedArea,
          isSelecting, startPos, currentPos, drag, scriptPending, loads, completions,
          rotation, overlay, redraws, overlayDeps,
          canvas, renders, renderTaskRef, renderCount, renderDeps, lastOp>>

\* lastOp: what ran last, and its argument.  A list handler is recorded with
\* the area id it was given, a pointer release with the bounding box of the
\* user's gesture, the continuations of handleMouseUp with the DOM event of
\* the release, clear-all with what it found; the other handlers are recorded
\* by their group ("load", "toolbar", "pointer").
Op(name) == [op |-> name, arg |-> Null]

OpArg(name, arg) == [op |-> name, arg |-> Some(arg)]

Init ==
    /\ numPages = 0
    /\ pageNumber = 1
    /\ scale = 100
    /\ loading = FALSE
    /\ error = ""
    /\ file = 0
    /\ pdfDoc = 0
    /\ isPDFJSLoaded = FALSE
    /\ selectedAreas = <<>>
    /\ isSelectionMode = FALSE
    /\ highlightedArea = Null
    /\ isSelecting = FALSE
    /\ startPos = Null
    /\ currentPos = Null
    /\ drag = Null
    /\ scriptPending = TRUE
    /\ loads = <<>>
    /\ completions = <<>>
    /\ rotation = 0
    /\ overlay = NewSelectionCanvas
    /\ redraws = <<>>
    /\ overlayDeps = Null
    /\ canvas = NewCanvas
    /\ renders = <<>>
    /\ renderTaskRef = Null
    /\ renderCount = 0
    /\ renderDeps = Null
    /\ lastOp = Op("init")

\* remove element i of a sequence
RemoveAt(s, i) == SubSeq(s, 1, i - 1) \o SubSeq(s, i + 1, Len(s))

-----------------------------------------------------------------------------
(* PDFViewer: loading the library and a document *)

\* script.onload of loadPDFJS: setIsPDFJSLoaded(true)
loadPDFJSLoaded ==
    /\ scriptPending
    /\ scriptPending' = FALSE
    /\ isPDFJSLoaded' = TRUE
    /\ lastOp' = Op("load")
    /\ UNCHANGED <<numPages, pageNumber, scale, loading, error, file, pdfDoc>>
    /\ UNCHANGED <<markVars, gestureVars, drag, loads, completions>>
    /\ UNCHANGED <<rotation, overlayVars, renderVars>>

\* script.onerror of loadPDFJS
loadPDFJSFailed ==
    /\ scriptPending
    /\ scriptPending' = FALSE
    /\ error' = "Failed to load PDF viewer. Please refresh the page."
    /\ lastOp' = Op("load")
    /\ UNCHANGED <<numPages, pageNumber, scale, loading, file, pdfDoc, isPDFJSLoaded>>
    /\ UNCHANGED <<markVars, gestureVars, drag, loads, completions>>
    /\ UNCHANGED <<rotation, overlayVars, renderVars>>

\* handleFileChange with a file of type application/pdf, and loadPDF up to
\* its first await
handleFileChange(f) ==
    /\ file' = f
    /\ IF ~isPDFJSLoaded
       THEN /\ error' = "PDF viewer is still loading. Please try again."
            /\ UNCHANGED <<loading, loads>>
       ELSE /\ Len(loads) < MaxLoads
            /\ loading' = TRUE
            /\ error' = ""
            /\ loads' = Append(loads, f)
    /\ lastOp' = Op("load")
    /\ UNCHANGED <<numPages, pageNumber, scale, pdfDoc, isPDFJSLoaded>>
    /\ UNCHANGED <<markVars, gestureVars, drag, scriptPending, completions>>
    /\ UNCHANGED <<rotation, overlayVars, renderVars>>

\* handleFileChange with a file of another type
handleFileChangeNotPdf ==
    /\ error' = "Please select a valid PDF file (application/pdf)"
    /\ lastOp' = Op("load")
    /\ UNCHANGED <<numPages, pageNumber, scale, loading, file, pdfDoc, isPDFJSLoaded>>
    /\ UNCHANGED <<markVars, gestureVars, drag, asyncVars>>
    /\ UNCHANGED <<rotation, overlayVars, renderVars>>

\* loadPDF after getDocument resolved
loadPDFResolved(i) ==
    /\ i \in 1..Len(loads)
    /\ pdfDoc' = loads[i]
    /\ numPages' = NumPagesOf(loads[i])
    /\ pageNumber' = 1
    /\ loading' = FALSE
    /\ loads' = RemoveAt(loads, i)
    /\ lastOp' = Op("load")
    /\ UNCHANGED <<scale, error, file, isPDFJSLoaded>>
    /\ UNCHANGED <<markVars, gestureVars, drag, scriptPending, completions>>
    /\ UNCHANGED <<rotation, overlayVars, renderVars>>

\* loadPDF after arrayBuffer or getDocument rejected
loadPDFRejected(i) ==
    /\ i \in 1..Len(loads)
    /\ error' = "Failed to load PDF file. Please ensure it's a valid PDF."
    /\ loading' = FALSE
    /\ loads' = RemoveAt(loads, i)
    /\ lastOp' = Op("load")
    /\ UNCHANGED <<numPages, pageNumber, scale, file, pdfDoc, isPDFJSLoaded>>
    /\ UNCHANGED <<markVars, gestureVars, drag, scriptPending, completions>>
    /\ UNCHANGED <<rotation, overlayVars, renderVars>>

-----------------------------------------------------------------------------
(* PDFViewer: toolbar (rendered once a file was chosen) *)

ToolbarShown == file # 0

goToPreviousPage ==
    /\ ToolbarShown
    /\ pageNumber > 1
    /\ pageNumber' = (IF pageNumber - 1 > 1 THEN pageNumber - 1 ELSE 1)
    /\ lastOp' = Op("toolbar")
    /\ UNCHANGED <<numPages, scale, loading, error, file, pdfDoc, isPDFJSLoaded>>
    /\ UNCHANGED <<markVars, gestureVars, drag, asyncVars>>
    /\ UNCHANGED <<rotation, overlayVars, renderVars>>

goToNextPage ==
    /\ ToolbarShown
    /\ pageNumber < numPages
    /\ pageNumber' = Min(pageNumber + 1, numPages)
    /\ lastOp' = Op("toolbar")
    /\ UNCHANGED <<numPages, scale, loading, error, file, pdfDoc, isPDFJSLoaded>>
    /\ UNCHANGED <<markVars, gestureVars, drag, asyncVars>>
    /\ UNCHANGED <<rotation, overlayVars, renderVars>>

\* onChange of the zoom selector: setScale(newScale)
handleScaleSelect(newScale) ==
    /\ ToolbarShown
    /\ scale' = newScale
    /\ lastOp' = Op("toolbar")
    /\ UNCHANGED <<numPages, pageNumber, loading, error, file, pdfDoc, isPDFJSLoaded>>
    /\ UNCHANGED <<markVars, gestureVars, drag, asyncVars>>
    /\ UNCHANGED <<rotation, overlayVars, renderVars>>

\* AreaSelectionTool.toggleSelectionMode: onSelectionModeChange(!isSelectionMode)
toggleSelectionMode ==
    /\ ToolbarShown
    /\ isSelectionMode' = ~isSelectionMode
    /\ lastOp' = Op("toolbar")
    /\ UNCHANGED <<viewerVars, selectedAreas, highlightedArea, gestureVars, drag, asyncVars>>
    /\ UNCHANGED <<rotation, overlayVars, renderVars>>

-----------------------------------------------------------------------------
(* What is mounted *)

\* the page canvas: {!loading && !error && pdfDoc && (...)} inside {file && (...)}
CanvasMounted == file # 0 /\ ~loading /\ error = "" /\ pdfDoc # 0

\* the overlay mounted with the canvas, whatever the selection mode
OverlayMountedAlways == CanvasMounted

\* the CanvasOverlay that receives the pointer events: {isSelectionMode && (...)}
OverlayMounted == CanvasMounted /\ isSelectionMode

-----------------------------------------------------------------------------
(* AreaSelectionTool: the gesture *)

\* the size below which a drag creates no area
MinSize == 10

\* the size test with || in place of &&
LargeEnoughEither(canvasWidth, canvasHeight) == canvasWidth > MinSize \/ canvasHeight > MinSize

\* if (canvasWidth > 10 && canvasHeight > 10)
LargeEnough(canvasWidth, canvasHeight) == canvasWidth > MinSize /\ canvasHeight > MinSize

\* setIsSelecting(false); setStartPos(null); setCurrentPos(null)
ResetGesture ==
    /\ isSelecting' = FALSE
    /\ startPos' = Null
    /\ currentPos' = Null

\* the selection area in canvas coordinates computed by handleMouseUp
DragBox(start, current) ==
    [canvasX      |-> Min(start.x, current.x),
     canvasY      |-> Min(start.y, current.y),
     canvasWidth  |-> Abs(current.x - start.x),
     canvasHeight |-> Abs(current.y - start.y)]

\* captureScreenshot: the pixels of the region of the canvas (what the canvas
\* shows, and where), copied when called
captureScreenshot(box) ==
    IF ~CanvasMounted THEN <<>>
    ELSE <<"data:image/png", canvas.shows, box.canvasX, box.canvasY, box.canvasWidth, box.canvasHeight>>

\* a handler on the page canvas that starts a drag whatever the mode
handleMouseDownUnguarded(p) ==
    /\ CanvasMounted
    /\ startPos' = Some(p)
    /\ currentPos' = Some(p)
    /\ isSelecting' = TRUE
    /\ drag' = Some([start |-> p, current |-> p])
    /\ lastOp' = Op("pointer")
    /\ UNCHANGED <<viewerVars, markVars, asyncVars>>
    /\ UNCHANGED <<rotation, overlayVars, renderVars>>

\* the button goes down over the page while the CanvasOverlay is not
\* rendered: the page canvas and the selection canvas carry no pointer
\* handler, so no code of the tool runs
pressOffOverlay(p) ==
    /\ CanvasMounted
    /\ ~OverlayMounted
    /\ drag' = Some([start |-> p, current |-> p])
    /\ lastOp' = Op("pointer.unhandled")
    /\ UNCHANGED <<viewerVars, markVars, gestureVars, asyncVars>>
    /\ UNCHANGED <<rotation, overlayVars, renderVars>>

handleMouseDownCall(p, canvasRefCurrent) ==
    /\ IF ~isSelectionMode \/ ~canvasRefCurrent
       THEN UNCHANGED gestureVars
       ELSE /\ startPos' = Some(p)
            /\ currentPos' = Some(p)
            /\ isSelecting' = TRUE
    /\ drag' = Some([start |-> p, current |-> p])
    /\ lastOp' = Op("pointer")
    /\ UNCHANGED <<viewerVars, markVars, asyncVars>>
    /\ UNCHANGED <<rotation, overlayVars, renderVars>>

\* handleMouseDown invoked by the CanvasOverlay of the viewer
handleMouseDown(p) ==
    /\ OverlayMounted
    /\ handleMouseDownCall(p, CanvasMounted)

handleMouseMoveCall(p) ==
    /\ IF ~isSelecting \/ IsNull(startPos)
       THEN UNCHANGED gestureVars
       ELSE /\ currentPos' = Some(p)
            /\ UNCHANGED <<isSelecting, startPos>>
    /\ drag' = (IF IsNull(drag) THEN drag ELSE Some([Val(drag) EXCEPT !.current = p]))
    /\ lastOp' = Op("pointer")
    /\ UNCHANGED <<viewerVars, markVars, asyncVars>>
    /\ UNCHANGED <<rotation, overlayVars, renderVars>>

\* handleMouseMove invoked by the CanvasOverlay of the viewer
handleMouseMove(p) ==
    /\ OverlayMounted
    /\ handleMouseMoveCall(p)

\* handleMouseUp up to its first await.  event names the DOM event that
\* invoked it: onMouseUp or onMouseLeave of the overlay.  The record of a
\* suspended call holds what its closure captured (pdfDoc, currentPage, scale,
\* rotation) and its locals: box and screenshot, then pdf (pdfX, pdfY, pdfWidth,
\* pdfHeight) and area (the argument of extractTextFromArea) once computed.
handleMouseUpCall(event, canvasRefCurrent) ==
    /\ IF ~isSelecting \/ IsNull(startPos) \/ IsNull(currentPos) \/ ~canvasRefCurrent
       THEN /\ ResetGesture
            /\ UNCHANGED completions
       ELSE LET box == DragBox(Val(startPos), Val(currentPos))
            IN  IF LargeEnough(box.canvasWidth, box.canvasHeight)
                THEN IF pdfDoc = 0
                     THEN UNCHANGED <<gestureVars, completions>>
                     ELSE /\ Len(selectedAreas) + Len(completions) < MaxAreas
                          /\ completions' = Append(completions,
                                [pc          |-> "getPage",
                                 event       |-> event,
                                 box         |-> box,
                                 screenshot  |-> captureScreenshot(box),
                                 pdfDoc      |-> pdfDoc,
                                 currentPage |-> pageNumber,
                                 scale       |-> scale,
                                 rotation    |-> rotation,
                                 pdf         |-> Null,
                                 area        |-> Null])
                          /\ UNCHANGED gestureVars
                ELSE /\ ResetGesture
                     /\ UNCHANGED completions
    /\ drag' = Null
    /\ lastOp' = (IF IsNull(drag) THEN Op(event)
                  ELSE OpArg(event, DragBox(Val(drag).start, Val(drag).current)))
    /\ UNCHANGED <<viewerVars, markVars, scriptPending, loads>>
    /\ UNCHANGED <<rotation, overlayVars, renderVars>>

\* handleMouseUp invoked by the CanvasOverlay of the viewer
handleMouseUp(event) ==
    /\ OverlayMounted
    /\ handleMouseUpCall(event, CanvasMounted)

onMouseUp == handleMouseUp("onMouseUp")

onMouseLeave == handleMouseUp("onMouseLeave")

-----------------------------------------------------------------------------
(* PDFViewer: the handlers given to AreaSelectionTool and SelectedAreasList *)

\* an addition that stamps the areas already listed with the time of the new one
handleAreaSelectedRestamping(prev, area) ==
    Append([k \in 1..Len(prev) |-> [prev[k] EXCEPT !.timestamp = area.timestamp]], area)

\* setSelectedAreas(prev => [...prev, area])
handleAreaSelected(prev, area) == Append(prev, area)

\* setHighlightedArea(area)
handleAreaHighlight(area) == area

\* a removal that drops the first area of the list, whatever its id
handleAreaRemoveFirst(prev, areaId) == Tail(prev)

\* setSelectedAreas(prev => prev.filter(area => area.id !== areaId))
handleAreaRemove(prev, areaId) == SelectSeq(prev, LAMBDA area : area.id # areaId)

\* the list left as it is
handleClearAllAreasKept == selectedAreas

\* setSelectedAreas([])
handleClearAllAreas == <<>>

-----------------------------------------------------------------------------
(* AreaSelectionTool: handleMouseUp after its awaits.  A suspended call    *)
(* works on the values its closure captured at the release.                *)

\* the conversion from canvas pixels to PDF points
PdfRect(c) ==
    CHOOSE r \in
        { [pdfX      |-> RMul(RDiv(FromInt(c.box.canvasX), canvasViewport.width), pdfViewport.width),
           pdfY      |-> RMul(RDiv(FromInt(c.box.canvasY), canvasViewport.height), pdfViewport.height),
           pdfWidth  |-> RMul(RDiv(FromInt(c.box.canvasWidth), canvasViewport.width), pdfViewport.width),
           pdfHeight |-> RMul(RDiv(FromInt(c.box.canvasHeight), canvasViewport.height), pdfViewport.height)] :
          pdfViewport \in {getViewport(100, 0)},
          canvasViewport \in {getViewport(c.scale, c.rotation)} } : TRUE

\* an argument of extractTextFromArea left in the top-left space of the drag
ExtractAreaUnflipped(r, page) ==
    [x      |-> r.pdfX,
     y      |-> r.pdfY,
     width  |-> r.pdfWidth,
     height |-> r.pdfHeight,
     page   |-> page]

\* the argument handleMouseUp passes to extractTextFromArea
ExtractArea(r, page) ==
    [x      |-> r.pdfX,
     y      |-> RSub(RSub(getViewport(100, 0).height, r.pdfY), r.pdfHeight),
     width  |-> r.pdfWidth,
     height |-> r.pdfHeight,
     page   |-> page]

\* a SelectedArea whose page is the page shown when the text arrives
NewAreaRereading(c, text, now, rand) ==
    [id         |-> <<"area", now, rand>>,
     text       |-> OrElse(text, NoTextDetected),
     screenshot |-> c.screenshot,
     position   |-> [pdfX         |-> Val(c.pdf).pdfX,
                     pdfY         |-> Val(c.pdf).pdfY,
                     pdfWidth     |-> Val(c.pdf).pdfWidth,
                     pdfHeight    |-> Val(c.pdf).pdfHeight,
                     page         |-> pageNumber,
                     canvasX      |-> c.box.canvasX,
                     canvasY      |-> c.box.canvasY,
                     canvasWidth  |-> c.box.canvasWidth,
                     canvasHeight |-> c.box.canvasHeight],
     timestamp  |-> now]

\* a SelectedArea whose screenshot is captured when the text arrives
NewAreaLateCapture(c, text, now, rand) ==
    [id         |-> <<"area", now, rand>>,
     text       |-> OrElse(text, NoTextDetected),
     screenshot |-> captureScreenshot(c.box),
     position   |-> [pdfX         |-> Val(c.pdf).pdfX,
                     pdfY         |-> Val(c.pdf).pdfY,
                     pdfWidth     |-> Val(c.pdf).pdfWidth,
                     pdfHeight    |-> Val(c.pdf).pdfHeight,
                     page         |-> c.currentPage,
                     canvasX      |-> c.box.canvasX,
                     canvasY      |-> c.box.canvasY,
                     canvasWidth  |-> c.box.canvasWidth,
                     canvasHeight |-> c.box.canvasHeight],
     timestamp  |-> now]

\* the SelectedArea object built once the text is known
NewArea(c, text, now, rand) ==
    [id         |-> <<"area", now, rand>>,
     text       |-> OrElse(text, NoTextDetected),
     screenshot |-> c.screenshot,
     position   |-> [pdfX         |-> Val(c.pdf).pdfX,
                     pdfY         |-> Val(c.pdf).pdfY,
                     pdfWidth     |-> Val(c.pdf).pdfWidth,
                     pdfHeight    |-> Val(c.pdf).pdfHeight,
                     page         |-> c.currentPage,
                     canvasX      |-> c.box.canvasX,
                     canvasY      |-> c.box.canvasY,
                     canvasWidth  |-> c.box.canvasWidth,
                     canvasHeight |-> c.box.canvasHeight],
     timestamp  |-> now]

\* onAreaSelected(selectedArea), then the reset at the end of handleMouseUp
EmitArea(i, text, name) ==
    /\ lastOp' = OpArg(name, completions[i].event)
    /\ completions' = RemoveAt(completions, i)
    /\ \E now \in Times, rand \in Rands :
          selectedAreas' = handleAreaSelected(selectedAreas, NewArea(completions[i], text, now, rand))
    /\ ResetGesture
    /\ UNCHANGED <<viewerVars, isSelectionMode, highlightedArea, drag, scriptPending, loads>>
    /\ UNCHANGED <<rotation, overlayVars, renderVars>>

\* await pdfDoc.getPage(currentPage) resolved: the rectangle is converted
\* and extractTextFromArea is called, which suspends at its own getPage
getPageResolved(i) ==
    /\ i \in 1..Len(completions)
    /\ completions[i].pc = "getPage"
    /\ lastOp' = OpArg("getPage.resolved", completions[i].event)
    /\ \E r \in {PdfRect(completions[i])} :
          completions' = [completions EXCEPT
                             ![i].pc   = "extract.getPage",
                             ![i].pdf  = Some(r),
                             ![i].area = Some(ExtractArea(r, completions[i].currentPage))]
    /\ UNCHANGED <<viewerVars, markVars, gestureVars, drag, scriptPending, loads>>
    /\ UNCHANGED <<rotation, overlayVars, renderVars>>

\* await pdfDoc.getPage(currentPage) rejected: the catch of handleMouseUp
\* logs the error, then the reset at the end of handleMouseUp runs
getPageRejected(i) ==
    /\ i \in 1..Len(completions)
    /\ completions[i].pc = "getPage"
    /\ ResetGesture
    /\ completions' = RemoveAt(completions, i)
    /\ lastOp' = OpArg("getPage.rejected", completions[i].event)
    /\ UNCHANGED <<viewerVars, markVars, drag, scriptPending, loads>>
    /\ UNCHANGED <<rotation, overlayVars, renderVars>>

\* extractTextFromArea: await pdfDoc.getPage(area.page) resolved
extractGetPageResolved(i) ==
    /\ i \in 1..Len(completions)
    /\ completions[i].pc = "extract.getPage"
    /\ completions' = [completions EXCEPT ![i].pc = "extract.getTextContent"]
    /\ lastOp' = OpArg("extract.getPage.resolved", completions[i].event)
    /\ UNCHANGED <<viewerVars, markVars, gestureVars, drag, scriptPending, loads>>
    /\ UNCHANGED <<rotation, overlayVars, renderVars>>

\* extractTextFromArea: await pdfDoc.getPage(area.page) rejected, caught by
\* extractTextFromArea
extractGetPageRejected(i) ==
    /\ i \in 1..Len(completions)
    /\ completions[i].pc = "extract.getPage"
    /\ EmitArea(i, ErrorExtractingText, "extract.getPage.rejected")

\* extractTextFromArea: await page.getTextContent() resolved
getTextContentResolved(i) ==
    /\ i \in 1..Len(completions)
    /\ completions[i].pc = "extract.getTextContent"
    /\ lastOp' = OpArg("extract.getTextContent.resolved", completions[i].event)
    /\ \E text \in {ExtractResult(TextItems(completions[i].pdfDoc, Val(completions[i].area).page),
                                   Val(completions[i].area))} :
          EmitArea(i, text, "extract.getTextContent.resolved")

\* the rejection not caught by extractTextFromArea: it reaches the catch of
\* handleMouseUp, which creates no area
getTextContentRejectedUncaught(i) ==
    /\ i \in 1..Len(completions)
    /\ completions[i].pc = "extract.getTextContent"
    /\ ResetGesture
    /\ completions' = RemoveAt(completions, i)
    /\ lastOp' = OpArg("extract.getTextContent.rejected", completions[i].event)
    /\ UNCHANGED <<viewerVars, markVars, drag, scriptPending, loads>>
    /\ UNCHANGED <<rotation, overlayVars, renderVars>>

\* extractTextFromArea: await page.getTextContent() rejected, caught by
\* extractTextFromArea
getTextContentRejected(i) ==
    /\ i \in 1..Len(completions)
    /\ completions[i].pc = "extract.getTextContent"
    /\ EmitArea(i, ErrorExtractingText, "extract.getTextContent.rejected")

-----------------------------------------------------------------------------
(* SelectedAreasList (rendered once a file was chosen; the items and the   *)
(* Clear All button only while the list is not empty)                      *)

\* handleAreaClick of SelectedAreasList.tsx: onAreaHighlight(area)
handleAreaClick(i) ==
    /\ ToolbarShown
    /\ i \in 1..Len(selectedAreas)
    /\ highlightedArea' = handleAreaHighlight(Some(selectedAreas[i]))
    /\ lastOp' = OpArg("handleAreaClick", selectedAreas[i].id)
    /\ UNCHANGED <<viewerVars, selectedAreas, isSelectionMode, gestureVars, drag, asyncVars>>
    /\ UNCHANGED <<rotation, overlayVars, renderVars>>

\* handleAreaClick of the paginated list (part_000):
\* onAreaHighlight(area === highlightedArea ? null : area)
handleAreaClickToggle(i) ==
    /\ ToolbarShown
    /\ i \in 1..Len(selectedAreas)
    /\ highlightedArea' = handleAreaHighlight(
            IF Some(selectedAreas[i]) = highlightedArea THEN Null ELSE Some(selectedAreas[i]))
    /\ lastOp' = OpArg("handleAreaClick", selectedAreas[i].id)
    /\ UNCHANGED <<viewerVars, selectedAreas, isSelectionMode, gestureVars, drag, asyncVars>>
    /\ UNCHANGED <<rotation, overlayVars, renderVars>>

\* highlightedArea?.id === areaId
IsHighlighted(areaId) == ~IsNull(highlightedArea) /\ Val(highlightedArea).id = areaId

\* the removal that clears the highlight whatever was removed
listHandleAreaRemoveClearing(i) ==
    /\ ToolbarShown
    /\ i \in 1..Len(selectedAreas)
    /\ selectedAreas' = handleAreaRemove(selectedAreas, selectedAreas[i].id)
    /\ highlightedArea' = handleAreaHighlight(Null)
    /\ lastOp' = OpArg("handleAreaRemove", selectedAreas[i].id)
    /\ UNCHANGED <<viewerVars, isSelectionMode, gestureVars, drag, asyncVars>>
    /\ UNCHANGED <<rotation, overlayVars, renderVars>>

\* the removal that never touches the highlight
listHandleAreaRemoveKeeping(i) ==
    /\ ToolbarShown
    /\ i \in 1..Len(selectedAreas)
    /\ selectedAreas' = handleAreaRemove(selectedAreas, selectedAreas[i].id)
    /\ lastOp' = OpArg("handleAreaRemove", selectedAreas[i].id)
    /\ UNCHANGED <<viewerVars, isSelectionMode, highlightedArea, gestureVars, drag, asyncVars>>
    /\ UNCHANGED <<rotation, overlayVars, renderVars>>

\* handleAreaRemove of the list: onAreaRemove(areaId), then
\* if (highlightedArea?.id === areaId) onAreaHighlight(null)
listHandleAreaRemove(i) ==
    /\ ToolbarShown
    /\ i \in 1..Len(selectedAreas)
    /\ LET areaId == selectedAreas[i].id
       IN  /\ selectedAreas' = handleAreaRemove(selectedAreas, areaId)
           /\ highlightedArea' = (IF IsHighlighted(areaId)
                                  THEN handleAreaHighlight(Null)
                                  ELSE highlightedArea)
           /\ lastOp' = OpArg("handleAreaRemove", areaId)
    /\ UNCHANGED <<viewerVars, isSelectionMode, gestureVars, drag, asyncVars>>
    /\ UNCHANGED <<rotation, overlayVars, renderVars>>

\* handleClearAll of the list: onClearAll(); onAreaHighlight(null)
listHandleClearAll ==
    /\ ToolbarShown
    /\ Len(selectedAreas) > 0
    /\ selectedAreas' = handleClearAllAreas
    /\ highlightedArea' = handleAreaHighlight(Null)
    /\ lastOp' = OpArg("handleClearAll", [areas       |-> Len(selectedAreas),
                                          highlighted |-> ~IsNull(highlightedArea)])
    /\ UNCHANGED <<viewerVars, isSelectionMode, gestureVars, drag, asyncVars>>
    /\ UNCHANGED <<rotation, overlayVars, renderVars>>

-----------------------------------------------------------------------------------------------------------------------------------------------------------------------------------------------------------------------------
(* PDFViewer: the selection canvas.  An effect redraws it whenever one of  *)
(* its dependencies changed; the drawing is asynchronous and works on the  *)
(* values the effect captured.                                             *)

\* drawSelectionBoxes calls in flight at once
MaxRedraws == 2

\* the dependency array of the redraw effect (the viewer of index.ts has no
\* rotation: it stays 0 there)
OverlayDepsNow == Some(<<selectedAreas, highlightedArea, pageNumber, scale, rotation, pdfDoc>>)

\* the effect is run after a render in which a dependency changed
OverlayEffectPending == overlayDeps # OverlayDepsNow

\* every area of the list, whatever its page
currentPageAreasUnfiltered(areas, page) == areas

\* selectedAreas.filter(area => area.position.page === pageNumber)
currentPageAreas(areas, page) == SelectSeq(areas, LAMBDA area : area.position.page = page)

\* a conversion that paints the stored PDF points as they are
CanvasRectUnscaled(position, pdfViewport, currentViewport) ==
    [canvasX      |-> position.pdfX,
     canvasY      |-> position.pdfY,
     canvasWidth  |-> position.pdfWidth,
     canvasHeight |-> position.pdfHeight]

\* a conversion that scales the size of the rectangle and leaves its corner
CanvasRectCornerKept(position, pdfViewport, currentViewport) ==
    [canvasX      |-> position.pdfX,
     canvasY      |-> position.pdfY,
     canvasWidth  |-> RMul(RDiv(position.pdfWidth, pdfViewport.width), currentViewport.width),
     canvasHeight |-> RMul(RDiv(position.pdfHeight, pdfViewport.height), currentViewport.height)]

\* the conversion of a stored position from PDF points to canvas pixels
CanvasRect(position, pdfViewport, currentViewport) ==
    [canvasX      |-> RMul(RDiv(position.pdfX, pdfViewport.width), currentViewport.width),
     canvasY      |-> RMul(RDiv(position.pdfY, pdfViewport.height), currentViewport.height),
     canvasWidth  |-> RMul(RDiv(position.pdfWidth, pdfViewport.width), currentViewport.width),
     canvasHeight |-> RMul(RDiv(position.pdfHeight, pdfViewport.height), currentViewport.height)]

\* what the forEach paints: one rectangle per area, dashed when highlighted
PaintedRects(areas, highlighted, pdfViewport, currentViewport) ==
    { [id            |-> areas[k].id,
       page          |-> areas[k].position.page,
       box           |-> CanvasRect(areas[k].position, pdfViewport, currentViewport),
       isHighlighted |-> ~IsNull(highlighted) /\ Val(highlighted).id = areas[k].id] :
      k \in 1..Len(areas) }

\* what a call of drawSelectionBoxes holds while it awaits getPage
Redraw(areas) ==
    [pdfDoc          |-> pdfDoc,
     pageNumber      |-> pageNumber,
     scale           |-> scale,
     rotation        |-> rotation,
     areas           |-> areas,
     highlightedArea |-> highlightedArea,
     detached        |-> FALSE]

\* the redraw effect of index.ts: drawSelectionBoxes is called and suspends
\* at getPage
redrawEffect ==
    /\ OverlayEffectPending
    /\ Len(redraws) < MaxRedraws
    /\ lastOp' = Op("redrawEffect")
    /\ overlayDeps' = OverlayDepsNow
    /\ IF ~CanvasMounted
       THEN UNCHANGED redraws
       ELSE redraws' = Append(redraws, Redraw(selectedAreas))
    /\ UNCHANGED <<viewerVars, markVars, gestureVars, drag, asyncVars>>
    /\ UNCHANGED <<rotation, overlay, renderVars>>

\* pdfDoc.getPage(pageNumber) resolves for the pages of the document
PageExists(doc, page) == page \in 1..NumPagesOf(doc)

\* drawSelectionBoxes of index.ts after getPage resolved: the selection
\* canvas takes the size of the main canvas, is cleared, and the areas of
\* the captured page are painted
drawSelectionBoxesResolved(i) ==
    /\ i \in 1..Len(redraws)
    /\ PageExists(redraws[i].pdfDoc, redraws[i].pageNumber)
    /\ \E areas \in {currentPageAreas(redraws[i].areas, redraws[i].pageNumber)} :
       \E rects \in {PaintedRects(areas, redraws[i].highlightedArea,
                                  getViewport(100, 0), getViewport(redraws[i].scale, 0))} :
          /\ lastOp' = OpArg("drawSelectionBoxes",
                             [page    |-> redraws[i].pageNumber,
                              scale   |-> redraws[i].scale,
                              rotation |-> 0,
                              listed  |-> redraws[i].areas,
                              drawn   |-> areas,
                              painted |-> rects])
          /\ IF redraws[i].detached
             THEN UNCHANGED overlay
             ELSE overlay' = [width |-> canvas.width, height |-> canvas.height, rects |-> rects]
    /\ redraws' = RemoveAt(redraws, i)
    /\ UNCHANGED <<viewerVars, markVars, gestureVars, drag, asyncVars>>
    /\ UNCHANGED <<rotation, overlayDeps, renderVars>>

\* a catch that reports the failure to the user: setError unmounts the canvases
drawSelectionBoxesRejectedSettingError(i) ==
    /\ i \in 1..Len(redraws)
    /\ lastOp' = Op("drawSelectionBoxes.rejected")
    /\ error' = "Error displaying PDF page."
    /\ redraws' = <<>>
    /\ overlay' = NewSelectionCanvas
    /\ UNCHANGED <<numPages, pageNumber, scale, loading, file, pdfDoc, isPDFJSLoaded>>
    /\ UNCHANGED <<markVars, gestureVars, drag, asyncVars>>
    /\ UNCHANGED <<rotation, overlayDeps, renderVars>>

\* drawSelectionBoxes after getPage rejected: the catch logs the error
drawSelectionBoxesRejected(i) ==
    /\ i \in 1..Len(redraws)
    /\ lastOp' = Op("drawSelectionBoxes.rejected")
    /\ redraws' = RemoveAt(redraws, i)
    /\ UNCHANGED <<viewerVars, markVars, gestureVars, drag, asyncVars>>
    /\ UNCHANGED <<rotation, overlay, overlayDeps, renderVars>>

(* The rotation-aware viewer (part_003): its redraw effect sizes and       *)
(* clears the selection canvas and filters the areas before it calls       *)
(* drawSelectionBoxes, which paints after getPage.                         *)

\* the redraw effect of part_003
redrawEffectP3 ==
    /\ OverlayEffectPending
    /\ Len(redraws) < MaxRedraws
    /\ lastOp' = Op("redrawEffect")
    /\ overlayDeps' = OverlayDepsNow
    /\ IF ~CanvasMounted
       THEN UNCHANGED <<overlay, redraws>>
       ELSE /\ overlay' = [width |-> canvas.width, height |-> canvas.height, rects |-> {}]
            /\ \E areas \in {currentPageAreas(selectedAreas, pageNumber)} :
                  IF areas = <<>>
                  THEN UNCHANGED redraws
                  ELSE redraws' = Append(redraws, Redraw(areas))
    /\ UNCHANGED <<viewerVars, markVars, gestureVars, drag, asyncVars>>
    /\ UNCHANGED <<rotation, renderVars>>

\* drawSelectionBoxes of part_003 after getPage resolved: the filtered areas
\* are painted over what the selection canvas holds
drawSelectionBoxesResolvedP3(i) ==
    /\ i \in 1..Len(redraws)
    /\ PageExists(redraws[i].pdfDoc, redraws[i].pageNumber)
    /\ \E rects \in {PaintedRects(redraws[i].areas, redraws[i].highlightedArea,
                                  getViewport(100, 0),
                                  getViewport(redraws[i].scale, redraws[i].rotation))} :
          /\ lastOp' = OpArg("drawSelectionBoxes",
                             [page    |-> redraws[i].pageNumber,
                              scale   |-> redraws[i].scale,
                              rotation |-> redraws[i].rotation,
                              listed  |-> redraws[i].areas,
                              drawn   |-> redraws[i].areas,
                              painted |-> rects])
          /\ IF redraws[i].detached
             THEN UNCHANGED overlay
             ELSE overlay' = [overlay EXCEPT !.rects = @ \cup rects]
    /\ redraws' = RemoveAt(redraws, i)
    /\ UNCHANGED <<viewerVars, markVars, gestureVars, drag, asyncVars>>
    /\ UNCHANGED <<rotation, overlayDeps, renderVars>>

\* handleRotation of part_003
handleRotation ==
    /\ ToolbarShown
    /\ rotation' = (rotation + 90) % 360
    /\ lastOp' = Op("toolbar")
    /\ UNCHANGED <<viewerVars, markVars, gestureVars, drag, asyncVars>>
    /\ UNCHANGED <<overlayVars, renderVars>>

-----------------------------------------------------------------------------
(* PDFViewer: renderPage (index.ts).  A call passes its guard, cancels the  *)
(* task renderTaskRef holds, and suspends at getPage; resumed, it sizes the *)
(* canvas, starts a render task, stores it in renderTaskRef and suspends at *)
(* the task's promise.                                                      *)

\* renderPage calls that pass the guard
MaxRenders == 3

\* what pdf.js 2.11.338 rejects with.  ownMessage: message and name are own
\* enumerable properties (the exceptions of pdf.js), so that JSON.stringify
\* prints them; of a native Error it prints "{}".  cancelled: the message
\* contains 'cancelled'.
RenderingCancelledException ==
    [name |-> "RenderingCancelledException", ownMessage |-> TRUE, cancelled |-> TRUE]

\* "Cannot use the same canvas during multiple render() operations. Use
\* different canvas or ensure previous operations were cancelled or completed."
CanvasInUseError == [name |-> "Error", ownMessage |-> FALSE, cancelled |-> TRUE]

\* a page that cannot be fetched or drawn
PageError == [name |-> "UnknownErrorException", ownMessage |-> TRUE, cancelled |-> FALSE]

\* a catch that takes nothing for a cancellation
IsCancellationNever(err) == FALSE

\* err && typeof err === 'object' && (JSON.stringify(err).includes('RenderingCancelled')
\* || JSON.stringify(err).includes('cancelled'))
IsCancellation(err) == err.ownMessage /\ err.cancelled

\* the dependency array of the render effect (renderPage changes with scale)
RenderDepsNow == Some(<<pageNumber, scale, pdfDoc, numPages>>)

\* the effect is run after a render in which a dependency changed
RenderEffectPending == renderDeps # RenderDepsNow

\* the canvases are taken out of the document: calls in flight keep the
\* elements they hold, fresh ones are created at the next mount
Detach(calls) == [k \in 1..Len(calls) |-> [calls[k] EXCEPT !.detached = TRUE]]

\* the position in renders of the call that started the task renderTaskRef holds
TaskHolder(calls) ==
    {k \in 1..Len(calls) : ~IsNull(renderTaskRef) /\ calls[k].id = Val(renderTaskRef)
                           /\ calls[k].pc = "render"}

\* renderTaskRef.current.cancel(): the promise of a running task rejects with
\* RenderingCancelledException
CancelTask(calls) ==
    [k \in 1..Len(calls) |->
        IF k \in TaskHolder(calls) THEN [calls[k] EXCEPT !.pc = "cancelled"] ELSE calls[k]]

\* renderPage(pdf, pageNum) up to its first await; scale is the scale of the
\* render that created the callback
renderPage(pdf, pageNum) ==
    IF pdf = 0 \/ ~CanvasMounted
    THEN UNCHANGED <<renders, renderTaskRef, renderCount>>
    ELSE /\ renderCount' = renderCount + 1
         /\ renders' = Append(CancelTask(renders),
                              [id       |-> renderCount + 1,
                               pc       |-> "getPage",
                               pdf      |-> pdf,
                               pageNum  |-> pageNum,
                               scale    |-> scale,
                               detached |-> FALSE])
         /\ renderTaskRef' = Null

\* the render effect
renderEffect ==
    /\ RenderEffectPending
    /\ renderCount < MaxRenders
    /\ lastOp' = Op("renderEffect")
    /\ renderDeps' = RenderDepsNow
    /\ IF pdfDoc # 0 /\ pageNumber >= 1 /\ pageNumber <= numPages /\ CanvasMounted
       THEN renderPage(pdfDoc, pageNumber)
       ELSE UNCHANGED <<renders, renderTaskRef, renderCount>>
    /\ UNCHANGED <<viewerVars, markVars, gestureVars, drag, asyncVars>>
    /\ UNCHANGED <<rotation, overlayVars, canvas>>

\* handleResize, called by the ResizeObserver of the canvas and on window
\* resize
handleResize ==
    /\ CanvasMounted
    /\ renderCount < MaxRenders
    /\ pageNumber >= 1 /\ pageNumber <= numPages
    /\ lastOp' = Op("handleResize")
    /\ renderPage(pdfDoc, pageNumber)
    /\ UNCHANGED <<viewerVars, markVars, gestureVars, drag, asyncVars>>
    /\ UNCHANGED <<rotation, overlayVars, canvas, renderDeps>>

\* the tasks that are drawing on the canvas call i holds
Drawing(i) ==
    {k \in 1..Len(renders) : k # i /\ renders[k].pc = "render"
                             /\ renders[k].detached = renders[i].detached}

\* page.render(renderContext) by call i.  pdf.js lets one task at a time draw
\* on a canvas: of two, the one that comes second to the canvas rejects with
\* CanvasInUseError.
StartTask(i, loser) ==
    [k \in 1..Len(renders) |->
        IF k = loser THEN [renders[k] EXCEPT !.pc = "inUse"]
        ELSE IF k = i THEN [renders[k] EXCEPT !.pc = "render"]
        ELSE renders[k]]

\* renderPage after getPage resolved, the 2D context available: the canvas
\* takes the size of the viewport, which clears it, and the task is started
renderGetPageResolved(i) ==
    /\ i \in 1..Len(renders)
    /\ renders[i].pc = "getPage"
    /\ PageExists(renders[i].pdf, renders[i].pageNum)
    /\ lastOp' = OpArg("renderPage.getPage.resolved", renders[i].id)
    /\ IF renders[i].detached
       THEN UNCHANGED canvas
       ELSE \E viewport \in {getViewport(renders[i].scale, 0)} :
               canvas' = [width |-> viewport.width, height |-> viewport.height, shows |-> Null]
    /\ \E loser \in (IF Drawing(i) = {} THEN {0} ELSE Drawing(i) \cup {i}) :
          renders' = StartTask(i, loser)
    /\ renderTaskRef' = Some(renders[i].id)
    /\ UNCHANGED <<viewerVars, markVars, gestureVars, drag, asyncVars>>
    /\ UNCHANGED <<rotation, overlayVars, renderCount, renderDeps>>

\* renderPage after getPage resolved, canvas.getContext('2d') null: logged
renderGetPageResolvedNoContext(i) ==
    /\ i \in 1..Len(renders)
    /\ renders[i].pc = "getPage"
    /\ PageExists(renders[i].pdf, renders[i].pageNum)
    /\ lastOp' = OpArg("renderPage.noContext", renders[i].id)
    /\ renders' = RemoveAt(renders, i)
    /\ UNCHANGED <<viewerVars, markVars, gestureVars, drag, asyncVars>>
    /\ UNCHANGED <<rotation, overlayVars, canvas, renderTaskRef, renderCount, renderDeps>>

\* setError('Error displaying PDF page.'): the canvases are unmounted
setErrorDisplaying(i) ==
    /\ error' = "Error displaying PDF page."
    /\ renders' = Detach(RemoveAt(renders, i))
    /\ redraws' = Detach(redraws)
    /\ canvas' = NewCanvas
    /\ overlay' = NewSelectionCanvas
    /\ UNCHANGED <<numPages, pageNumber, scale, loading, file, pdfDoc, isPDFJSLoaded>>

\* the catch of renderPage, call i rejected with err
renderPageCatch(i, err) ==
    /\ lastOp' = OpArg("renderPage.catch", [id |-> renders[i].id, pc |-> renders[i].pc, err |-> err.name])
    /\ IF IsCancellation(err)
       THEN /\ renders' = RemoveAt(renders, i)
            /\ UNCHANGED <<viewerVars, redraws, canvas, overlay>>
       ELSE setErrorDisplaying(i)
    /\ UNCHANGED <<markVars, gestureVars, drag, asyncVars>>
    /\ UNCHANGED <<rotation, overlayDeps, renderTaskRef, renderCount, renderDeps>>

\* await pdf.getPage(pageNum) rejected
renderGetPageRejected(i) ==
    /\ i \in 1..Len(renders)
    /\ renders[i].pc = "getPage"
    /\ renderPageCatch(i, PageError)

\* await renderTaskRef.current.promise resolved: the page is on the canvas
renderTaskResolved(i) ==
    /\ i \in 1..Len(renders)
    /\ renders[i].pc = "render"
    /\ lastOp' = OpArg("renderPage.resolved", renders[i].id)
    /\ IF renders[i].detached
       THEN UNCHANGED canvas
       ELSE canvas' = [canvas EXCEPT !.shows = Some([id    |-> renders[i].id,
                                                      page  |-> renders[i].pageNum,
                                                      scale |-> renders[i].scale])]
    /\ renderTaskRef' = Null
    /\ renders' = RemoveAt(renders, i)
    /\ UNCHANGED <<viewerVars, markVars, gestureVars, drag, asyncVars>>
    /\ UNCHANGED <<rotation, overlayVars, renderCount, renderDeps>>

\* the task's promise rejected: the page cannot be drawn
renderTaskRejected(i) ==
    /\ i \in 1..Len(renders)
    /\ renders[i].pc = "render"
    /\ renderPageCatch(i, PageError)

\* the task's promise rejected: the task was canceled
renderTaskCancelled(i) ==
    /\ i \in 1..Len(renders)
    /\ renders[i].pc = "cancelled"
    /\ renderPageCatch(i, RenderingCancelledException)

\* the task's promise rejected: another task was drawing on the canvas
renderTaskCanvasInUse(i) ==
    /\ i \in 1..Len(renders)
    /\ renders[i].pc = "inUse"
    /\ renderPageCatch(i, CanvasInUseError)

-----------------------------------------------------------------------------
(* Specifications.  Each one is the widget driven by a part of its inputs. *)

\* the continuations of handleMouseUp whose await resolved
CompletionResolved(i) ==
    \/ getPageResolved(i)
    \/ extractGetPageResolved(i)
    \/ getTextContentResolved(i)

\* the continuations of handleMouseUp whose await rejected
CompletionRejected(i) ==
    \/ getPageRejected(i)
    \/ extractGetPageRejected(i)
    \/ getTextContentRejected(i)

\* the library loads and the user chooses one file
LoadOnce ==
    \/ loadPDFJSLoaded
    \/ (file = 0 /\ \E f \in Files : handleFileChange(f))
    \/ \E i \in 1..MaxLoads : loadPDFResolved(i)
    \/ \E i \in 1..MaxLoads : loadPDFRejected(i)

\* the two corners of an 11x11 drag; a press and release on one of them is a
\* 0x0 drag
LargeDrag == { [x |-> 0, y |-> 0], [x |-> 11, y |-> 11] }

\* where the button goes down in Spec
PressPoints == { [x |-> 0, y |-> 0] }

\* Spec: one document; forward page navigation, the selection mode toggle, a
\* press at the origin, the pointer moved to and released at every point of
\* Points (drags of 0x0, 11x11, 49x3 and 10x11), every outcome of every await
\* of handleMouseUp.
Next ==
    \/ LoadOnce
    \/ goToNextPage
    \/ toggleSelectionMode
    \/ \E p \in PressPoints : handleMouseDown(p)
    \/ \E p \in Points : handleMouseMove(p)
    \/ onMouseUp
    \/ onMouseLeave
    \/ \E i \in 1..MaxAreas : CompletionResolved(i)
    \/ \E i \in 1..MaxAreas : CompletionRejected(i)

Spec == Init /\ [][Next]_vars

\* FairSpec: one document with every lookup of handleMouseUp succeeding;
\* drags between the points of LargeDrag, released by either event.  pdf.js
\* settles every promise and the event loop runs every continuation, so a
\* suspended handleMouseUp whose await resolved is eventually resumed.
NextLookupsOk ==
    \/ LoadOnce
    \/ goToPreviousPage
    \/ goToNextPage
    \/ toggleSelectionMode
    \/ \E p \in LargeDrag : handleMouseDown(p)
    \/ \E p \in LargeDrag : handleMouseMove(p)
    \/ onMouseUp
    \/ onMouseLeave
    \/ \E i \in 1..MaxAreas : CompletionResolved(i)

FairSpec ==
    /\ Init
    /\ [][NextLookupsOk]_vars
    /\ \A i \in 1..MaxAreas : WF_vars(CompletionResolved(i))


\* ListSpec: one document; areas are created by large drags released with
\* onMouseUp and every list operation is applied to them.
NextList ==
    \/ LoadOnce
    \/ goToPreviousPage
    \/ goToNextPage
    \/ toggleSelectionMode
    \/ \E p \in LargeDrag : handleMouseDown(p)
    \/ \E p \in LargeDrag : handleMouseMove(p)
    \/ onMouseUp
    \/ \E i \in 1..MaxAreas : CompletionResolved(i)
    \/ \E i \in 1..MaxAreas : handleAreaClick(i)
    \/ \E i \in 1..MaxAreas : handleAreaClickToggle(i)
    \/ \E i \in 1..MaxAreas : listHandleAreaRemove(i)
    \/ listHandleClearAll

ListSpec == Init /\ [][NextList]_vars

\* the library loads and the user chooses a file any number of times, also
\* while a document is shown
LoadAny ==
    \/ loadPDFJSLoaded
    \/ \E f \in Files : handleFileChange(f)
    \/ \E i \in 1..MaxLoads : loadPDFResolved(i)
    \/ \E i \in 1..MaxLoads : loadPDFRejected(i)

\* HighlightSpec: files are loaded over one another; areas are created by
\* large drags and every list operation is applied to them.
NextHighlight ==
    \/ LoadAny
    \/ toggleSelectionMode
    \/ \E p \in LargeDrag : handleMouseDown(p)
    \/ \E p \in LargeDrag : handleMouseMove(p)
    \/ onMouseUp
    \/ \E i \in 1..MaxAreas : CompletionResolved(i)
    \/ \E i \in 1..MaxAreas : handleAreaClick(i)
    \/ \E i \in 1..MaxAreas : handleAreaClickToggle(i)
    \/ \E i \in 1..MaxAreas : listHandleAreaRemove(i)
    \/ listHandleClearAll

HighlightSpec == Init /\ [][NextHighlight]_vars

\* React runs the effects of a render before it handles the next event
OverlayEffectRan == ~OverlayEffectPending

\* OverlaySpec: the selection canvas of index.ts over one document.  The
\* page is turned, areas are created by large drags and highlighted from the
\* list.  The redraw effect runs before the next handler; a suspended
\* drawSelectionBoxes is resumed at any later moment, its getPage resolved or
\* rejected.
NextOverlay ==
    \/ redrawEffect
    \/ \E i \in 1..MaxRedraws : drawSelectionBoxesResolved(i)
    \/ \E i \in 1..MaxRedraws : drawSelectionBoxesRejected(i)
    \/ (OverlayEffectRan /\ LoadOnce)
    \/ (OverlayEffectRan /\ goToNextPage)
    \/ (OverlayEffectRan /\ toggleSelectionMode)
    \/ (OverlayEffectRan /\ \E p \in PressPoints : handleMouseDown(p))
    \/ (OverlayEffectRan /\ \E p \in LargeDrag : handleMouseMove(p))
    \/ (OverlayEffectRan /\ onMouseUp)
    \/ (OverlayEffectRan /\ \E i \in 1..MaxAreas : CompletionResolved(i))
    \/ (OverlayEffectRan /\ \E i \in 1..MaxAreas : handleAreaClick(i))

OverlaySpec == Init /\ [][NextOverlay]_vars

\* OverlaySpecP3: the selection canvas of the rotation-aware viewer, driven
\* in the same way
NextOverlayP3 ==
    \/ redrawEffectP3
    \/ \E i \in 1..MaxRedraws : drawSelectionBoxesResolvedP3(i)
    \/ \E i \in 1..MaxRedraws : drawSelectionBoxesRejected(i)
    \/ (OverlayEffectRan /\ LoadOnce)
    \/ (OverlayEffectRan /\ goToNextPage)
    \/ (OverlayEffectRan /\ toggleSelectionMode)
    \/ (OverlayEffectRan /\ \E p \in PressPoints : handleMouseDown(p))
    \/ (OverlayEffectRan /\ \E p \in LargeDrag : handleMouseMove(p))
    \/ (OverlayEffectRan /\ onMouseUp)
    \/ (OverlayEffectRan /\ \E i \in 1..MaxAreas : CompletionResolved(i))
    \/ (OverlayEffectRan /\ \E i \in 1..MaxAreas : handleAreaClick(i))

OverlaySpecP3 == Init /\ [][NextOverlayP3]_vars

\* the render effect of a render runs before the next event is handled
RenderEffectRan == ~RenderEffectPending

\* renderPage may still be called
RenderBudget == renderCount < MaxRenders

\* RenderOkSpec: renderPage over one document whose pages can all be fetched
\* and drawn.  Pages are turned, the scale is changed, the canvas is resized;
\* a suspended renderPage is resumed at any later moment.
NextRenderOk ==
    \/ renderEffect
    \/ (RenderEffectRan /\ handleResize)
    \/ \E i \in 1..MaxRenders : renderGetPageResolved(i)
    \/ \E i \in 1..MaxRenders : renderTaskResolved(i)
    \/ (RenderEffectRan /\ \E i \in 1..MaxRenders : renderTaskCancelled(i))
    \/ (RenderEffectRan /\ \E i \in 1..MaxRenders : renderTaskCanvasInUse(i))
    \/ (RenderEffectRan /\ RenderBudget /\ LoadOnce)
    \/ (RenderEffectRan /\ RenderBudget /\ goToPreviousPage)
    \/ (RenderEffectRan /\ RenderBudget /\ goToNextPage)
    \/ (RenderEffectRan /\ RenderBudget /\ \E newScale \in ScaleOptions : handleScaleSelect(newScale))

RenderOkSpec == Init /\ [][NextRenderOk]_vars

\* RenderSpec: as RenderOkSpec, with every outcome of every await of
\* renderPage and of canvas.getContext
NextRender ==
    \/ renderEffect
    \/ (RenderEffectRan /\ handleResize)
    \/ \E i \in 1..MaxRenders : renderGetPageResolved(i)
    \/ \E i \in 1..MaxRenders : renderGetPageResolvedNoContext(i)
    \/ (RenderEffectRan /\ \E i \in 1..MaxRenders : renderGetPageRejected(i))
    \/ \E i \in 1..MaxRenders : renderTaskResolved(i)
    \/ (RenderEffectRan /\ \E i \in 1..MaxRenders : renderTaskRejected(i))
    \/ (RenderEffectRan /\ \E i \in 1..MaxRenders : renderTaskCancelled(i))
    \/ (RenderEffectRan /\ \E i \in 1..MaxRenders : renderTaskCanvasInUse(i))
    \/ (RenderEffectRan /\ RenderBudget /\ LoadOnce)
    \/ (RenderEffectRan /\ RenderBudget /\ goToPreviousPage)
    \/ (RenderEffectRan /\ RenderBudget /\ goToNextPage)
    \/ (RenderEffectRan /\ RenderBudget /\ \E newScale \in ScaleOptions : handleScaleSelect(newScale))

RenderSpec == Init /\ [][NextRender]_vars

\* SnapshotSpec: one document with every lookup of handleMouseUp succeeding;
\* the page is turned and the scale changed while releases of large drags
\* are suspended at their awaits
NextSnapshot ==
    \/ LoadOnce
    \/ goToNextPage
    \/ \E newScale \in ScaleOptions : handleScaleSelect(newScale)
    \/ toggleSelectionMode
    \/ \E p \in PressPoints : handleMouseDown(p)
    \/ \E p \in LargeDrag : handleMouseMove(p)
    \/ onMouseUp
    \/ \E i \in 1..MaxAreas : CompletionResolved(i)

SnapshotSpec == Init /\ [][NextSnapshot]_vars

\* CaptureSpec: one document whose pages are rendered while areas are
\* selected: the page is turned, renderPage calls are resumed at any moment,
\* large drags are released and completed
NextCapture ==
    \/ renderEffect
    \/ \E i \in 1..MaxRenders : renderGetPageResolved(i)
    \/ \E i \in 1..MaxRenders : renderTaskResolved(i)
    \/ (RenderEffectRan /\ \E i \in 1..MaxRenders : renderTaskCancelled(i))
    \/ (RenderEffectRan /\ \E i \in 1..MaxRenders : renderTaskCanvasInUse(i))
    \/ (RenderEffectRan /\ RenderBudget /\ LoadOnce)
    \/ (RenderEffectRan /\ RenderBudget /\ goToNextPage)
    \/ (RenderEffectRan /\ toggleSelectionMode)
    \/ (RenderEffectRan /\ \E p \in PressPoints : handleMouseDown(p))
    \/ (RenderEffectRan /\ \E p \in LargeDrag : handleMouseMove(p))
    \/ (RenderEffectRan /\ onMouseUp)
    \/ (RenderEffectRan /\ \E i \in 1..MaxAreas : CompletionResolved(i))

CaptureSpec == Init /\ [][NextCapture]_vars

\* the values of the zoom selector
RoundTripScales == {50, 75, 100, 125, 150, 200}

\* where the button goes down and where it is released in RoundTripSpec
RoundTripPress == { [x |-> 7, y |-> 5] }

RoundTripRelease == { [x |-> 18, y |-> 17], [x |-> 49, y |-> 59], [x |-> 30, y |-> 41] }

\* no area exists and none is being created or painted
NoMarks == selectedAreas = <<>> /\ completions = <<>> /\ redraws = <<>>

\* RoundTripSpec: one document shown at one scale of the zoom selector, chosen
\* before the first area is created; rectangles are dragged one after the
\* other, stored and painted by the redraw effect of index.ts under that scale
NextRoundTrip ==
    \/ redrawEffect
    \/ \E i \in 1..MaxRedraws : drawSelectionBoxesResolved(i)
    \/ (OverlayEffectRan /\ LoadOnce)
    \/ (OverlayEffectRan /\ NoMarks /\ \E newScale \in RoundTripScales : handleScaleSelect(newScale))
    \/ (OverlayEffectRan /\ toggleSelectionMode)
    \/ (OverlayEffectRan /\ completions = <<>> /\ \E p \in RoundTripPress : handleMouseDown(p))
    \/ (OverlayEffectRan /\ \E p \in RoundTripRelease : handleMouseMove(p))
    \/ (OverlayEffectRan /\ onMouseUp)
    \/ (OverlayEffectRan /\ \E i \in 1..MaxAreas : CompletionResolved(i))

RoundTripSpec == Init /\ [][NextRoundTrip]_vars

\* RoundTripSpecP3: the same in the rotation-aware viewer, at 100% or 150%
\* and under one rotation, chosen before the first area is created
NextRoundTripP3 ==
    \/ redrawEffectP3
    \/ \E i \in 1..MaxRedraws : drawSelectionBoxesResolvedP3(i)
    \/ (OverlayEffectRan /\ LoadOnce)
    \/ (OverlayEffectRan /\ NoMarks /\ handleScaleSelect(150))
    \/ (OverlayEffectRan /\ NoMarks /\ handleRotation)
    \/ (OverlayEffectRan /\ toggleSelectionMode)
    \/ (OverlayEffectRan /\ completions = <<>> /\ \E p \in RoundTripPress : handleMouseDown(p))
    \/ (OverlayEffectRan /\ \E p \in RoundTripRelease : handleMouseMove(p))
    \/ (OverlayEffectRan /\ onMouseUp)
    \/ (OverlayEffectRan /\ \E i \in 1..MaxAreas : CompletionResolved(i))

RoundTripSpecP3 == Init /\ [][NextRoundTripP3]_vars

\* ZoomSpec: rectangles are dragged while the document is shown at 100%; the
\* zoom selector is then set to 200% and the redraw effect of index.ts paints
\* the stored areas under the new scale
NextZoom ==
    \/ redrawEffect
    \/ \E i \in 1..MaxRedraws : drawSelectionBoxesResolved(i)
    \/ (OverlayEffectRan /\ LoadOnce)
    \/ (OverlayEffectRan /\ ~isSelecting /\ handleScaleSelect(200))
    \/ (OverlayEffectRan /\ toggleSelectionMode)
    \/ (OverlayEffectRan /\ scale = 100 /\ completions = <<>>
           /\ \E p \in RoundTripPress : handleMouseDown(p))
    \/ (OverlayEffectRan /\ \E p \in RoundTripRelease : handleMouseMove(p))
    \/ (OverlayEffectRan /\ onMouseUp)
    \/ (OverlayEffectRan /\ \E i \in 1..MaxAreas : CompletionResolved(i))

ZoomSpec == Init /\ [][NextZoom]_vars

\* TurnSpecP3: in the rotation-aware viewer rectangles are dragged while the
\* document is shown at 100% and rotation 0; the page is then turned or
\* zoomed to 200% and the redraw effect paints the stored areas
NextTurnP3 ==
    \/ redrawEffectP3
    \/ \E i \in 1..MaxRedraws : drawSelectionBoxesResolvedP3(i)
    \/ (OverlayEffectRan /\ LoadOnce)
    \/ (OverlayEffectRan /\ ~isSelecting /\ handleScaleSelect(200))
    \/ (OverlayEffectRan /\ ~isSelecting /\ handleRotation)
    \/ (OverlayEffectRan /\ toggleSelectionMode)
    \/ (OverlayEffectRan /\ scale = 100 /\ rotation = 0 /\ completions = <<>>
           /\ \E p \in RoundTripPress : handleMouseDown(p))
    \/ (OverlayEffectRan /\ \E p \in RoundTripRelease : handleMouseMove(p))
    \/ (OverlayEffectRan /\ onMouseUp)
    \/ (OverlayEffectRan /\ \E i \in 1..MaxAreas : CompletionResolved(i))

TurnSpecP3 == Init /\ [][NextTurnP3]_vars

\* the redraw effect ran and no redraw is suspended
OverlayQuiet == OverlayEffectRan /\ redraws = <<>>

\* where the pointer is released in FrameSpec
FrameRelease == { [x |-> 11, y |-> 11] }

\* FrameSpec: the viewer of index.ts with everything that happens around the
\* listed areas: the page turned and the zoom changed, areas created,
\* highlighted, removed and cleared, and the overlay redrawn after each
\* change, before the next event
NextFrame ==
    \/ redrawEffect
    \/ \E i \in 1..MaxRedraws : drawSelectionBoxesResolved(i)
    \/ (OverlayQuiet /\ LoadOnce)
    \/ (OverlayQuiet /\ goToNextPage)
    \/ (OverlayQuiet /\ goToPreviousPage)
    \/ (OverlayQuiet /\ \E newScale \in ScaleOptions : handleScaleSelect(newScale))
    \/ (OverlayQuiet /\ toggleSelectionMode)
    \/ (OverlayQuiet /\ completions = <<>> /\ \E p \in PressPoints : handleMouseDown(p))
    \/ (OverlayQuiet /\ \E p \in FrameRelease : handleMouseMove(p))
    \/ (OverlayQuiet /\ onMouseUp)
    \/ (OverlayQuiet /\ \E i \in 1..MaxAreas : CompletionResolved(i))
    \/ (OverlayQuiet /\ \E i \in 1..MaxAreas : handleAreaClick(i))
    \/ (OverlayQuiet /\ \E i \in 1..MaxAreas : listHandleAreaRemove(i))
    \/ (OverlayQuiet /\ listHandleClearAll)

FrameSpec == Init /\ [][NextFrame]_vars

\* the rectangles handed to extractTextFromArea in ExtractSpec, in PDF points
\* with the origin at the bottom-left: around the items of page 1 they overlap
\* them entirely, in part, touch them at an edge or lie apart
ExtractAreas ==
    { [x |-> FromInt(x), y |-> FromInt(y), width |-> FromInt(w), height |-> FromInt(h),
       page |-> p] :
        x \in {0, 4, 6, 10}, y \in {44, 50, 52, 56}, w \in {2, 6}, h \in {4, 8}, p \in 1..3 }

\* the ways the awaits can end for a document and a page: getPage rejects for
\* a page the document does not have
AwaitOutcomes(doc, page) ==
    IF PageExists(doc, page)
    THEN {Resolved, GetPageRejected, GetTextContentRejected}
    ELSE {GetPageRejected}

\* one call of extractTextFromArea and the value it resolved to
extractTextFromAreaCall(doc, area, outcome) ==
    /\ lastOp' = OpArg("extractTextFromArea",
                       [pdfDoc  |-> doc,
                        area    |-> area,
                        outcome |-> outcome,
                        text    |-> extractTextFromArea(doc, area, outcome)])
    /\ UNCHANGED <<viewerVars, markVars, gestureVars, drag, asyncVars>>
    /\ UNCHANGED <<rotation, overlayVars, renderVars>>

\* ExtractSpec: extractTextFromArea called with or without a document, on
\* every rectangle of ExtractAreas, its awaits ending in every way
NextExtract ==
    \E doc \in {0} \cup Files, area \in ExtractAreas :
       \E outcome \in AwaitOutcomes(doc, area.page) :
          extractTextFromAreaCall(doc, area, outcome)

ExtractSpec == Init /\ [][NextExtract]_vars

\* PressSpec: one document; the selection mode is toggled at any moment, the
\* button goes down over the page with the mode on or off, large drags are
\* made and released
NextPress ==
    \/ LoadOnce
    \/ goToNextPage
    \/ toggleSelectionMode
    \/ \E p \in LargeDrag : handleMouseDown(p)
    \/ \E p \in LargeDrag : pressOffOverlay(p)
    \/ \E p \in LargeDrag : handleMouseMove(p)
    \/ onMouseUp
    \/ \E i \in 1..MaxAreas : CompletionResolved(i)

PressSpec == Init /\ [][NextPress]_vars

\* SettleSpec: the selection canvas of index.ts with every page lookup
\* succeeding.  The page is turned, the zoom raised, areas are created and
\* highlighted; each change runs the redraw effect, and the suspended
\* redraws are resumed in any order.
NextSettle ==
    \/ redrawEffect
    \/ \E i \in 1..MaxRedraws : drawSelectionBoxesResolved(i)
    \/ (OverlayEffectRan /\ LoadOnce)
    \/ (OverlayEffectRan /\ goToNextPage)
    \/ (OverlayEffectRan /\ handleScaleSelect(200))
    \/ (OverlayEffectRan /\ toggleSelectionMode)
    \/ (OverlayEffectRan /\ completions = <<>> /\ \E p \in PressPoints : handleMouseDown(p))
    \/ (OverlayEffectRan /\ \E p \in FrameRelease : handleMouseMove(p))
    \/ (OverlayEffectRan /\ onMouseUp)
    \/ (OverlayEffectRan /\ \E i \in 1..MaxAreas : CompletionResolved(i))
    \/ (OverlayEffectRan /\ \E i \in 1..MaxAreas : handleAreaClick(i))

SettleSpec == Init /\ [][NextSettle]_vars

\* both effects of a render ran and nothing they started is still suspended
ViewSettled ==
    /\ RenderEffectRan /\ OverlayEffectRan
    /\ renders = <<>> /\ redraws = <<>>

\* SizeSpec: the page canvas and the selection canvas of index.ts over one
\* document whose pages can all be fetched and drawn.  The page is turned,
\* the scale changed or the canvas resized once everything started by the
\* previous change has completed; the render and the redraw a change starts
\* resume in any order.
NextSize ==
    \/ renderEffect
    \/ redrawEffect
    \/ \E i \in 1..MaxRenders : renderGetPageResolved(i)
    \/ \E i \in 1..MaxRenders : renderTaskResolved(i)
    \/ \E i \in 1..MaxRedraws : drawSelectionBoxesResolved(i)
    \/ (ViewSettled /\ handleResize)
    \/ (ViewSettled /\ RenderBudget /\ LoadOnce)
    \/ (ViewSettled /\ RenderBudget /\ goToNextPage)
    \/ (ViewSettled /\ RenderBudget /\ goToPreviousPage)
    \/ (ViewSettled /\ RenderBudget /\ \E newScale \in ScaleOptions : handleScaleSelect(newScale))

SizeSpec == Init /\ [][NextSize]_vars

\* the CanvasOverlay the tool renders itself:
\* {isSelectionMode && canvasRef.current && (...)}.  canvasRef and pdfDoc are
\* two props of the tool; the overlay does not depend on pdfDoc
ToolOverlayMounted(canvasRefCurrent) == isSelectionMode /\ canvasRefCurrent

\* ToolSpec: AreaSelectionTool given a mounted canvas in canvasRef and, in
\* pdfDoc, whatever the viewer holds: null until a load resolved.  Drags
\* start on the points of LargeDrag, move to every point of Points and are
\* released by either event; every await of handleMouseUp settles, resolved or
\* rejected, and its continuation is eventually run.
NextTool ==
    \/ LoadOnce
    \/ toggleSelectionMode
    \/ \E p \in LargeDrag : (ToolOverlayMounted(TRUE) /\ handleMouseDownCall(p, TRUE))
    \/ \E p \in Points : (ToolOverlayMounted(TRUE) /\ handleMouseMoveCall(p))
    \/ \E event \in {"onMouseUp", "onMouseLeave"} :
            (ToolOverlayMounted(TRUE) /\ handleMouseUpCall(event, TRUE))
    \/ \E i \in 1..MaxAreas : CompletionResolved(i)
    \/ \E i \in 1..MaxAreas : CompletionRejected(i)

ToolSpec ==
    /\ Init
    /\ [][NextTool]_vars
    /\ \A i \in 1..MaxAreas : WF_vars(CompletionResolved(i) \/ CompletionRejected(i))

\* OneDragSpec: one document; the button goes down only while no area is
\* listed and no handleMouseUp is suspended, so every area of the list comes
\* from the drag started by the last press.  The pointer moves to every point
\* of Points and the drag is released by pointer-up and pointer-leave in any
\* order and number; every await of handleMouseUp ends in every way.
NextOneDrag ==
    \/ LoadOnce
    \/ goToNextPage
    \/ toggleSelectionMode
    \/ (selectedAreas = <<>> /\ completions = <<>> /\ \E p \in PressPoints : handleMouseDown(p))
    \/ \E p \in Points : handleMouseMove(p)
    \/ onMouseUp
    \/ onMouseLeave
    \/ \E i \in 1..MaxAreas : CompletionResolved(i)
    \/ \E i \in 1..MaxAreas : CompletionRejected(i)

OneDragSpec == Init /\ [][NextOneDrag]_vars

\* upper bound on the renderPage calls counted by renderCount once a load
\* applied its state updates one by one
MaxReloadRenders == 5

\* the files chosen in ReloadSpec: file 1 has two pages, file 2 has one
ReloadFiles == {1, 2}

\* the renderPage calls issued while loadPDF applies setPdfDoc(pdf),
\* setNumPages(pdf.numPages), setPageNumber(1), setLoading(false) outside a
\* batch: every update is rendered on its own and the render effect of each
\* render runs before the next update, with the state of that render; then
\* loadPDF itself calls renderPage(pdf, 1).  mounted: the canvas is mounted
\* during the first three renders.
ReloadRenderCalls(pdf, mounted) ==
    (IF mounted /\ pdf # pdfDoc /\ pageNumber >= 1 /\ pageNumber <= numPages
     THEN << [pdf |-> pdf, pageNum |-> pageNumber] >> ELSE << >>)
    \o
    (IF mounted /\ NumPagesOf(pdf) # numPages /\ pageNumber >= 1 /\ pageNumber <= NumPagesOf(pdf)
     THEN << [pdf |-> pdf, pageNum |-> pageNumber] >> ELSE << >>)
    \o
    (IF mounted /\ pageNumber # 1 /\ 1 <= NumPagesOf(pdf)
     THEN << [pdf |-> pdf, pageNum |-> 1] >> ELSE << >>)
    \o
    (IF file # 0 /\ error = ""
     THEN << [pdf |-> pdf, pageNum |-> 1] >> ELSE << >>)

\* the drawSelectionBoxes calls issued by the redraw effect of the same
\* renders: pdfDoc and pageNumber are among its dependencies, numPages and
\* loading are not
ReloadRedrawCalls(pdf, mounted) ==
    (IF mounted /\ pdf # pdfDoc
     THEN << [Redraw(selectedAreas) EXCEPT !.pdfDoc = pdf] >> ELSE << >>)
    \o
    (IF mounted /\ pageNumber # 1
     THEN << [Redraw(selectedAreas) EXCEPT !.pdfDoc = pdf, !.pageNumber = 1] >> ELSE << >>)

\* loadPDF after getDocument resolved, its four state updates applied one by
\* one (updates made after an await are batched by React 18 only), followed
\* by its own renderPage(pdf, 1)
loadPDFResolvedUnbatched(i) ==
    /\ i \in 1..Len(loads)
    /\ \E pdf \in {loads[i]} :
       \E mounted \in {file # 0 /\ ~loading /\ error = ""} :
       \E calls \in {ReloadRenderCalls(pdf, mounted)}, draws \in {ReloadRedrawCalls(pdf, mounted)} :
          /\ renderCount + Len(calls) <= MaxReloadRenders
          /\ Len(redraws) + Len(draws) <= MaxRedraws
          /\ pdfDoc' = pdf
          /\ numPages' = NumPagesOf(pdf)
          /\ pageNumber' = 1
          /\ loading' = FALSE
          /\ renderDeps' = Some(<<1, scale, pdf, NumPagesOf(pdf)>>)
          /\ overlayDeps' = Some(<<selectedAreas, highlightedArea, 1, scale, rotation, pdf>>)
          /\ redraws' = redraws \o draws
          /\ IF calls = << >>
             THEN UNCHANGED <<renders, renderTaskRef, renderCount>>
             ELSE /\ renderCount' = renderCount + Len(calls)
                  /\ renderTaskRef' = Null
                  /\ renders' = CancelTask(renders) \o
                                   [k \in 1..Len(calls) |->
                                       [id       |-> renderCount + k,
                                        pc       |-> "getPage",
                                        pdf      |-> calls[k].pdf,
                                        pageNum  |-> calls[k].pageNum,
                                        scale    |-> scale,
                                        detached |-> FALSE]]
    /\ loads' = RemoveAt(loads, i)
    /\ lastOp' = Op("load")
    /\ UNCHANGED <<scale, error, file, isPDFJSLoaded>>
    /\ UNCHANGED <<markVars, gestureVars, drag, scriptPending, completions>>
    /\ UNCHANGED <<rotation, overlay, canvas>>

\* ReloadSpec: files are chosen over one another, also while an earlier load
\* is in flight; a load that resolves applies its updates in one batch or one
\* by one.  Pages are turned.  A file is chosen, a load resolves and a page
\* is turned once everything started by the previous change has completed;
\* getPage resolves for the pages the document has and rejects for the others.
NextReloadBatched ==
    \/ loadPDFJSLoaded
    \/ renderEffect
    \/ redrawEffect
    \/ (ViewSettled /\ \E f \in ReloadFiles : (f # file /\ handleFileChange(f)))
    \/ (ViewSettled /\ \E i \in 1..MaxLoads : loadPDFResolved(i))
    \/ (ViewSettled /\ goToNextPage)
    \/ (ViewSettled /\ goToPreviousPage)
    \/ \E i \in 1..Len(renders) :
          (PageExists(renders[i].pdf, renders[i].pageNum) /\ renderGetPageResolved(i))
    \/ \E i \in 1..Len(renders) :
          (~PageExists(renders[i].pdf, renders[i].pageNum) /\ renderGetPageRejected(i))
    \/ \E i \in 1..Len(renders) : renderTaskResolved(i)
    \/ \E i \in 1..Len(redraws) : drawSelectionBoxesResolved(i)
    \/ \E i \in 1..Len(redraws) :
          (~PageExists(redraws[i].pdfDoc, redraws[i].pageNumber) /\ drawSelectionBoxesRejected(i))

NextReload ==
    \/ NextReloadBatched
    \/ (ViewSettled /\ \E i \in 1..MaxLoads : loadPDFResolvedUnbatched(i))

\* the same with every load applying its updates in one batch
ReloadBatchedSpec == Init /\ [][NextReloadBatched]_vars

ReloadSpec == Init /\ [][NextReload]_vars

\* the decimal digits, "0" first
Digits == <<"0", "1", "2", "3", "4", "5", "6", "7", "8", "9">>

IsDigit(c) == \E d \in 1..Len(Digits) : Digits[d] = c

DigitValue(c) == (CHOOSE d \in 1..Len(Digits) : Digits[d] = c) - 1

\* the value of the longest prefix of digits of s, read after acc
RECURSIVE ParseDigits(_, _)
ParseDigits(s, acc) ==
    IF s = << >> \/ ~IsDigit(Head(s)) THEN acc
    ELSE ParseDigits(Tail(s), acc * 10 + DigitValue(Head(s)))

\* parseInt(text, 10): leading white space is skipped, a sign is read, then
\* the longest prefix of digits; NaN (Null) when there is no digit
RECURSIVE parseInt(_)
parseInt(text) ==
    IF text # << >> /\ Head(text) = Space THEN parseInt(Tail(text))
    ELSE LET signed == text # << >> /\ Head(text) \in {"-", "+"}
             digits == IF signed THEN Tail(text) ELSE text
         IN  IF digits = << >> \/ ~IsDigit(Head(digits)) THEN Null
             ELSE Some((IF signed /\ Head(text) = "-" THEN -1 ELSE 1) * ParseDigits(digits, 0))

\* what the page input of type number can hold: nothing, numbers below, in
\* and above the range of pages, a negative number, a fraction, an exponent
PageInputs ==
    { << >>, <<"0">>, <<"1">>, <<"2">>, <<"3">>, <<"1", "2">>,
      <<"-", "1">>, <<"1", ".", "5">>, <<"2", "e", "1">> }

\* a page input that takes every number it can read
handlePageInputChangeUnchecked(text) ==
    /\ ToolbarShown
    /\ \E newPage \in {parseInt(text)} :
          IF ~IsNull(newPage)
          THEN pageNumber' = Val(newPage)
          ELSE UNCHANGED pageNumber
    /\ lastOp' = OpArg("pageInput", text)
    /\ UNCHANGED <<numPages, scale, loading, error, file, pdfDoc, isPDFJSLoaded>>
    /\ UNCHANGED <<markVars, gestureVars, drag, asyncVars>>
    /\ UNCHANGED <<rotation, overlayVars, renderVars>>

\* handlePageInputChange: onChange of the page input with event.target.value
handlePageInputChange(text) ==
    /\ ToolbarShown
    /\ \E newPage \in {parseInt(text)} :
          IF ~IsNull(newPage) /\ Val(newPage) >= 1 /\ Val(newPage) <= numPages
          THEN pageNumber' = Val(newPage)
          ELSE UNCHANGED pageNumber
    /\ lastOp' = OpArg("pageInput", text)
    /\ UNCHANGED <<numPages, scale, loading, error, file, pdfDoc, isPDFJSLoaded>>
    /\ UNCHANGED <<markVars, gestureVars, drag, asyncVars>>
    /\ UNCHANGED <<rotation, overlayVars, renderVars>>

\* PagingSpec: files of two pages and of one page are chosen over one
\* another, also while a load is in flight; loads resolve, with their updates
\* batched or not, or reject; the page is changed with the two buttons and
\* with every value of the page input.
NextPaging ==
    \/ loadPDFJSLoaded
    \/ \E f \in ReloadFiles : handleFileChange(f)
    \/ \E i \in 1..MaxLoads : loadPDFResolved(i)
    \/ \E i \in 1..MaxLoads : loadPDFResolvedUnbatched(i)
    \/ \E i \in 1..MaxLoads : loadPDFRejected(i)
    \/ goToPreviousPage
    \/ goToNextPage
    \/ \E text \in PageInputs : handlePageInputChange(text)

PagingSpec == Init /\ [][NextPaging]_vars

\* ReplaceSpec: a file of two pages and a file of one page are chosen one
\* after the other, once no load is in flight; pages are turned, areas are
\* created by large drags and highlighted from the list.
NextReplace ==
    \/ loadPDFJSLoaded
    \/ (loads = << >> /\ \E f \in ReloadFiles : (f # file /\ handleFileChange(f)))
    \/ \E i \in 1..MaxLoads : loadPDFResolved(i)
    \/ goToNextPage
    \/ toggleSelectionMode
    \/ \E p \in LargeDrag : handleMouseDown(p)
    \/ \E p \in LargeDrag : handleMouseMove(p)
    \/ onMouseUp
    \/ \E i \in 1..MaxAreas : CompletionResolved(i)
    \/ \E i \in 1..MaxAreas : handleAreaClick(i)

ReplaceSpec == Init /\ [][NextReplace]_vars

\* OverlapSpec: once the library is loaded, files of two pages and of one
\* page are chosen over one another, also while a load is in flight; the
\* loads in flight resolve in any order, with their updates batched or not.
\* Pages are turned and the zoom is changed.
NextOverlap ==
    \/ loadPDFJSLoaded
    \/ (isPDFJSLoaded /\ \E f \in ReloadFiles : (f # file /\ handleFileChange(f)))
    \/ \E i \in 1..MaxLoads : loadPDFResolved(i)
    \/ \E i \in 1..MaxLoads : loadPDFResolvedUnbatched(i)
    \/ goToNextPage
    \/ goToPreviousPage
    \/ \E newScale \in ScaleOptions : handleScaleSelect(newScale)

OverlapSpec == Init /\ [][NextOverlap]_vars

-----------------------------------------------------------------------------
(* Properties *)

ReleaseEvents == {"onMouseUp", "onMouseLeave"}

\* the continuations of handleMouseUp that end in onAreaSelected
EmitOps == {"extract.getPage.rejected", "extract.getTextContent.resolved",
            "extract.getTextContent.rejected"}

LastArea == selectedAreas[Len(selectedAreas)]

\* the drag in progress has a bounding box above the threshold in both dimensions
DragIsLarge ==
    /\ isSelecting /\ ~IsNull(startPos) /\ ~IsNull(currentPos)
    /\ Abs(Val(currentPos).x - Val(startPos).x) > MinSize
    /\ Abs(Val(currentPos).y - Val(startPos).y) > MinSize

\* C1: an area enters the list only as the last step of a handleMouseUp call
\* made by a drag release whose canvas-pixel bounding box is wider and higher
\* than 10; a release of a drag with a dimension <= 10 starts no area creation
\* and adds no area.
C1_AreaOnlyFromLargeRelease ==
    [][ /\ (selectedAreas' # selectedAreas =>
              \E i \in 1..Len(completions) :
                 /\ completions' = RemoveAt(completions, i)
                 /\ completions[i].event \in ReleaseEvents
                 /\ Len(selectedAreas') = Len(selectedAreas) + 1
                 /\ SubSeq(selectedAreas', 1, Len(selectedAreas)) = selectedAreas
                 /\ LastArea'.position.canvasWidth = completions[i].box.canvasWidth
                 /\ LastArea'.position.canvasHeight = completions[i].box.canvasHeight
                 /\ LastArea'.position.canvasWidth > MinSize
                 /\ LastArea'.position.canvasHeight > MinSize)
        /\ (Len(completions') > Len(completions) =>
              /\ lastOp'.op \in ReleaseEvents
              /\ DragIsLarge
              /\ completions'[Len(completions')].box = DragBox(Val(startPos), Val(currentPos)))
        /\ (lastOp'.op \in ReleaseEvents /\ ~DragIsLarge =>
              /\ completions' = completions
              /\ selectedAreas' = selectedAreas)
      ]_vars

\* C1 witness: an 11x11 drag was released and its area has just been added
C1_Witness ==
    /\ lastOp.op \in EmitOps
    /\ Len(selectedAreas) > 0
    /\ LastArea.position.canvasWidth = 11
    /\ LastArea.position.canvasHeight = 11

PageNumbers == {1, 2}

\* the user has just released, on page p, a drag whose bounding box is above
\* the threshold in both dimensions
LargeDragReleased(p) ==
    /\ lastOp.op \in ReleaseEvents
    /\ ~IsNull(lastOp.arg)
    /\ LargeEnough(Val(lastOp.arg).canvasWidth, Val(lastOp.arg).canvasHeight)
    /\ pageNumber = p

\* an area for page p has just been added with the text found on the page
AreaAdded(p) ==
    /\ lastOp.op = "extract.getTextContent.resolved"
    /\ Len(selectedAreas) > 0
    /\ LastArea.position.page = p

\* C2, as claimed: with every lookup succeeding, every release of a drag
\* whose bounding box is wider and higher than 10 is eventually followed by
\* the addition of an area for the page it was released on.
C2_LargeReleaseEventuallyAddsArea ==
    \A p \in PageNumbers : LargeDragReleased(p) ~> AreaAdded(p)

\* What does hold: a handleMouseUp call that found the gesture state of a
\* large drag and suspended on page p eventually adds an area for page p.
SuspendedReleaseEventuallyAddsArea ==
    \A p \in PageNumbers :
        (\E i \in 1..Len(completions) : completions[i].currentPage = p) ~> AreaAdded(p)

\* C3: while selection mode is off, no pointer event of the overlay is
\* handled and no area creation starts, whatever drag is in progress.
C3_NoReleaseWhileModeOff ==
    [][ ~isSelectionMode =>
          /\ lastOp'.op \notin (ReleaseEvents \cup {"pointer"})
          /\ Len(completions') <= Len(completions) ]_vars

\* C3 witness: selection mode was turned off during a large drag, the button
\* still held down
C3_Witness == ~isSelectionMode /\ DragIsLarge /\ CanvasMounted /\ ~IsNull(drag)

\* C4, as claimed: whenever selection mode is off the gesture state is cleared.
C4_ModeOffClearsGesture ==
    ~isSelectionMode => (~isSelecting /\ IsNull(startPos) /\ IsNull(currentPos))

\* C5, as claimed: no step of a handleMouseUp call made by the pointer
\* leaving the overlay adds an area.
C5_LeaveEmitsNoArea ==
    [][ (lastOp'.op \in EmitOps /\ lastOp'.arg = Some("onMouseLeave")) =>
          Len(selectedAreas') <= Len(selectedAreas) ]_vars

\* C6, as claimed: when the page lookup of handleMouseUp fails, an area is
\* added all the same.
C6_PageLookupFailureStillAddsArea ==
    [][ lastOp'.op = "getPage.rejected" => Len(selectedAreas') = Len(selectedAreas) + 1 ]_vars

\* C7: when the text-content fetch fails, the step that handles the failure
\* appends an area whose text is 'Error extracting text'.
C7_TextFailureGivesSentinelArea ==
    [][ lastOp'.op = "extract.getTextContent.rejected" =>
          /\ Len(selectedAreas') = Len(selectedAreas) + 1
          /\ SubSeq(selectedAreas', 1, Len(selectedAreas)) = selectedAreas
          /\ LastArea'.text = ErrorExtractingText ]_vars

\* C7 witness: a text-content fetch failed and the area carries the sentinel
C7_Witness ==
    /\ lastOp.op = "extract.getTextContent.rejected"
    /\ Len(selectedAreas) > 0
    /\ LastArea.text = ErrorExtractingText

\* C8: every area in the list has a text of at least one character.
C8_TextNeverEmpty ==
    \A i \in 1..Len(selectedAreas) : Len(selectedAreas[i].text) > 0

\* C8 witness: an area whose region overlaps no text carries the sentinel
C8_Witness ==
    \E i \in 1..Len(selectedAreas) : selectedAreas[i].text = NoTextDetected

\* C9: a removal by id takes exactly the areas with that id out of the list;
\* it clears the highlight when the highlighted area has that id and leaves
\* the highlight as it was otherwise.
C9_RemoveClearsOwnHighlightOnly ==
    [][ lastOp'.op = "handleAreaRemove" =>
          LET areaId == Val(lastOp'.arg)
              hit    == ~IsNull(highlightedArea) /\ Val(highlightedArea).id = areaId
          IN  /\ selectedAreas' = SelectSeq(selectedAreas, LAMBDA a : a.id # areaId)
              /\ \E i \in 1..Len(selectedAreas) : selectedAreas[i].id = areaId
              /\ (hit => IsNull(highlightedArea'))
              /\ (~hit => highlightedArea' = highlightedArea) ]_vars

\* C9 witness: an area was removed while another one stays highlighted
C9_Witness ==
    /\ lastOp.op = "handleAreaRemove"
    /\ ~IsNull(highlightedArea)
    /\ Val(highlightedArea).id # Val(lastOp.arg)
    /\ Len(selectedAreas) > 0

\* C10: after clear-all the list is empty and nothing is highlighted.
C10_ClearAllEmptiesListAndHighlight ==
    lastOp.op = "handleClearAll" => (selectedAreas = <<>> /\ IsNull(highlightedArea))

\* C10 witness: clear-all has just emptied a list of two areas, one of them
\* highlighted
C10_Witness ==
    /\ lastOp.op = "handleClearAll"
    /\ Val(lastOp.arg).areas = 2
    /\ Val(lastOp.arg).highlighted
    /\ selectedAreas = <<>>

\* no two areas of the list have the same id
IdsDistinct ==
    \A i, j \in 1..Len(selectedAreas) : selectedAreas[i].id = selectedAreas[j].id => i = j

\* the positions of the list that hold an area with the id of the highlighted one
HighlightTargets ==
    {i \in 1..Len(selectedAreas) : selectedAreas[i].id = Val(highlightedArea).id}

PagesOf(areas) == { areas[k].position.page : k \in 1..Len(areas) }

\* C12: an overlay redraw issued for page N paints only areas whose
\* position.page is N: everything it painted belongs to page N, and every
\* rectangle on the selection canvas afterwards that was not there before is
\* a rectangle of page N.
C12_RedrawPaintsOnlyItsPage ==
    [][lastOp'.op = "drawSelectionBoxes" =>
          /\ PagesOf(Val(lastOp'.arg).drawn) \subseteq {Val(lastOp'.arg).page}
          /\ \A r \in overlay'.rects \ overlay.rects : r.page = Val(lastOp'.arg).page]_vars

\* a redraw for page 2 finished that was given areas of page 1 and of page 2
\* and painted
C12_Witness ==
    /\ lastOp.op = "drawSelectionBoxes"
    /\ Val(lastOp.arg).page = 2
    /\ PagesOf(Val(lastOp.arg).listed) = {1, 2}
    /\ overlay.rects # {}

\* C13: in the rotation-aware viewer, after any redraw finishes the selection
\* canvas holds only the rectangles of that redraw, also when redraws overlap.
C13_OverlayHoldsOnlyLastRedraw ==
    [][lastOp'.op = "drawSelectionBoxes" =>
          overlay'.rects = Val(lastOp'.arg).painted]_vars

\* every renderPage call has settled and no render is about to be requested
RendersSettled == renders = <<>> /\ renderCount > 0 /\ RenderEffectRan

\* C14: once all renders have settled, the canvas (when no error took it off
\* the screen) shows the output of the most recently requested render, which
\* is a render of the current page at the current scale: renders requested
\* while an earlier one was in flight have superseded it.
C14_CanvasShowsLatestRender ==
    (RendersSettled /\ CanvasMounted) =>
        /\ ~IsNull(canvas.shows)
        /\ Val(canvas.shows).page = pageNumber
        /\ Val(canvas.shows).scale = scale

GenuineRenderFailure ==
    \/ lastOp.op = "renderPage.noContext"
    \/ /\ lastOp.op = "renderPage.catch"
       /\ Val(lastOp.arg).err # "RenderingCancelledException"

\* C16: every genuine render failure in renderPage sets the error message.
C16_RenderFailureSetsError ==
    [][GenuineRenderFailure' => error' = "Error displaying PDF page."]_vars

\* the page was changed since the render effect last ran
PageChanged == ~IsNull(renderDeps) /\ Val(renderDeps)[1] # pageNumber

\* C17: after a render failure has set the error message, a page change
\* re-attempts the render: the render effect that follows the page change
\* calls renderPage.
C17_PageChangeRetriesRender ==
    [][(error = "Error displaying PDF page." /\ PageChanged /\ lastOp'.op = "renderEffect") =>
          renderCount' = renderCount + 1]_vars

\* what holds instead: unless a file is chosen, the error message of a
\* render failure stays and the canvas is never mounted again
RenderErrorStays ==
    [][error = "Error displaying PDF page." => (error' = error /\ ~CanvasMounted')]_vars

\* what a suspended handleMouseUp captured at the release
Snapshot(c) == <<c.pdfDoc, c.currentPage, c.scale, c.rotation, c.box, c.screenshot>>

\* the rectangle stored in a position
StoredRect(position) ==
    [pdfX      |-> position.pdfX,
     pdfY      |-> position.pdfY,
     pdfWidth  |-> position.pdfWidth,
     pdfHeight |-> position.pdfHeight]

\* C18: the values used throughout the completion of a drag are one snapshot
\* taken at the release.  A call is suspended with the document, page, scale
\* and rotation of the moment of the release; no later step changes what a
\* suspended call holds; the area it adds has the page of the snapshot in
\* position.page, the rectangle converted with the scale and rotation of the
\* snapshot, and the rectangle handed to the text extraction carries the
\* same page.
C18_CompletionUsesReleaseSnapshot ==
    [][/\ \A k \in 1..Len(completions') :
             \/ \E j \in 1..Len(completions) : Snapshot(completions'[k]) = Snapshot(completions[j])
             \/ /\ lastOp'.op \in ReleaseEvents
                /\ k = Len(completions')
                /\ completions'[k].pdfDoc = pdfDoc
                /\ completions'[k].currentPage = pageNumber
                /\ completions'[k].scale = scale
                /\ completions'[k].rotation = rotation
       /\ Len(selectedAreas') > Len(selectedAreas) =>
             \E j \in 1..Len(completions) :
                /\ Len(completions') < Len(completions)
                /\ LastArea'.position.page = completions[j].currentPage
                /\ StoredRect(LastArea'.position) = PdfRect(completions[j])
                /\ LastArea'.screenshot = completions[j].screenshot
                /\ ~IsNull(completions[j].area)
                /\ Val(completions[j].area).page = completions[j].currentPage
                /\ lastOp'.op = "extract.getTextContent.resolved" =>
                      LastArea'.text =
                          OrElse(ExtractResult(TextItems(completions[j].pdfDoc, completions[j].currentPage),
                                               ExtractArea(PdfRect(completions[j]), completions[j].currentPage)),
                                 NoTextDetected)]_vars

\* an area was added for a drag released on page 1 at scale 100%, while page
\* 2 is shown at scale 200%
C18_Witness ==
    /\ lastOp.op = "extract.getTextContent.resolved"
    /\ Len(selectedAreas) > 0
    /\ LastArea.position.page = 1
    /\ LastArea.position.pdfWidth = FromInt(11)
    /\ pageNumber = 2
    /\ scale = 200

\* a release suspended a new handleMouseUp call in this step
ReleaseSuspended ==
    /\ lastOp'.op \in ReleaseEvents
    /\ Len(completions') = Len(completions) + 1

\* C19: the screenshot is captured in the step of the release, before the
\* first await.  The call is suspended holding the pixels the canvas showed
\* when the release arrived, the step writes nothing to the canvas, and the
\* area added later carries those pixels, whatever was rendered in between.
C19_ScreenshotTakenAtRelease ==
    [][/\ ReleaseSuspended =>
             /\ completions'[Len(completions')].screenshot # <<>>
             /\ completions'[Len(completions')].screenshot[2] = canvas.shows
             /\ canvas' = canvas
       /\ Len(selectedAreas') > Len(selectedAreas) =>
             \E j \in 1..Len(completions) : LastArea'.screenshot = completions[j].screenshot]_vars

\* an area was added whose screenshot shows the render of page 1, while the
\* canvas shows the render of page 2
C19_Witness ==
    /\ lastOp.op = "extract.getTextContent.resolved"
    /\ Len(selectedAreas) > 0
    /\ LastArea.screenshot # <<>>
    /\ ~IsNull(LastArea.screenshot[2])
    /\ Val(LastArea.screenshot[2]).page = 1
    /\ ~IsNull(canvas.shows)
    /\ Val(canvas.shows).page = 2

\* the rectangle the user dragged, as stored with the area for reference
DraggedRect(position) ==
    [canvasX      |-> FromInt(position.canvasX),
     canvasY      |-> FromInt(position.canvasY),
     canvasWidth  |-> FromInt(position.canvasWidth),
     canvasHeight |-> FromInt(position.canvasHeight)]

\* C20: a rectangle dragged under a scale, converted to PDF points by
\* handleMouseUp and back to canvas pixels by the overlay redraw under the
\* same scale, is painted where it was dragged: every rectangle a redraw
\* paints is the dragged rectangle of an area it was given.
C20_RoundTripReproducesRect ==
    [][lastOp'.op = "drawSelectionBoxes" =>
          \A r \in Val(lastOp'.arg).painted :
             \E k \in 1..Len(Val(lastOp'.arg).drawn) :
                /\ Val(lastOp'.arg).drawn[k].id = r.id
                /\ r.box = DraggedRect(Val(lastOp'.arg).drawn[k].position)]_vars

\* at 150% a redraw painted the rectangle dragged from (7,5) to (30,41)
C20_Witness ==
    /\ lastOp.op = "drawSelectionBoxes"
    /\ scale = 150
    /\ \E r \in overlay.rects :
          r.box = [canvasX |-> FromInt(7), canvasY |-> FromInt(5),
                   canvasWidth |-> FromInt(23), canvasHeight |-> FromInt(36)]

\* a rectangle of canvas pixels with every coordinate doubled
Twice(rect) ==
    [canvasX      |-> RMul(FromInt(2), rect.canvasX),
     canvasY      |-> RMul(FromInt(2), rect.canvasY),
     canvasWidth  |-> RMul(FromInt(2), rect.canvasWidth),
     canvasHeight |-> RMul(FromInt(2), rect.canvasHeight)]

\* C21: an area created at scale 1.0 and redrawn by the overlay at scale 2.0
\* is painted with x, y, width and height each exactly twice those of the
\* rectangle that was dragged.  In ZoomSpec every area is created at 100%.
C21_RedrawAtDoubleScaleDoubles ==
    [][(lastOp'.op = "drawSelectionBoxes" /\ Val(lastOp'.arg).scale = 200) =>
          /\ \A k \in 1..Len(Val(lastOp'.arg).drawn) :
                \E r \in Val(lastOp'.arg).painted :
                   /\ r.id = Val(lastOp'.arg).drawn[k].id
                   /\ r.box = Twice(DraggedRect(Val(lastOp'.arg).drawn[k].position))
          /\ \A r \in Val(lastOp'.arg).painted :
                \E k \in 1..Len(Val(lastOp'.arg).drawn) :
                   /\ Val(lastOp'.arg).drawn[k].id = r.id
                   /\ r.box = Twice(DraggedRect(Val(lastOp'.arg).drawn[k].position))]_vars

\* the rectangle dragged at 100% from (7,5) to (30,41) was painted at 200%
\* at (14,10) with size 46x72
C21_Witness ==
    /\ lastOp.op = "drawSelectionBoxes"
    /\ Val(lastOp.arg).scale = 200
    /\ \E k \in 1..Len(Val(lastOp.arg).drawn) :
          /\ Val(lastOp.arg).drawn[k].position.canvasX = 7
          /\ Val(lastOp.arg).drawn[k].position.canvasWidth = 23
          /\ Val(lastOp.arg).drawn[k].position.canvasHeight = 36
    /\ \E r \in Val(lastOp.arg).painted :
          r.box = [canvasX |-> FromInt(14), canvasY |-> FromInt(10),
                   canvasWidth |-> FromInt(46), canvasHeight |-> FromInt(72)]

\* C22: a rectangle drawn under one scale and rotation, stored in PDF points
\* and redrawn under another scale and rotation, covers the same page content
\* as where it was drawn, also when the rotation changed in between.  In
\* TurnSpecP3 every area is dragged at 100% and rotation 0.
C22_RedrawCoversSameContent ==
    [][lastOp'.op = "drawSelectionBoxes" =>
          \A r \in Val(lastOp'.arg).painted :
             \E k \in 1..Len(Val(lastOp'.arg).drawn) :
                /\ Val(lastOp'.arg).drawn[k].id = r.id
                /\ PageRegion(r.box, Val(lastOp'.arg).scale, Val(lastOp'.arg).rotation)
                      = PageRegion(DraggedRect(Val(lastOp'.arg).drawn[k].position), 100, 0)]_vars

\* the same with the rotation unchanged: redrawn at rotation 0 under either
\* scale, an area covers the content it was dragged over
SameRotationCoversSameContent ==
    [][(lastOp'.op = "drawSelectionBoxes" /\ Val(lastOp'.arg).rotation = 0) =>
          \A r \in Val(lastOp'.arg).painted :
             \E k \in 1..Len(Val(lastOp'.arg).drawn) :
                /\ Val(lastOp'.arg).drawn[k].id = r.id
                /\ PageRegion(r.box, Val(lastOp'.arg).scale, 0)
                      = PageRegion(DraggedRect(Val(lastOp'.arg).drawn[k].position), 100, 0)]_vars

\* C23: the position stored with an area has its origin at the bottom-left
\* of the page: the conversion of the dragged rectangle flips the vertical
\* axis once, stored y = unscaled viewport height - top - height.  In ZoomSpec
\* every area is dragged at 100%, where canvas pixels are unscaled units.
C23_StoredYIsFlipped ==
    [][lastOp'.op \in EmitOps =>
          LET position == selectedAreas'[Len(selectedAreas')].position
          IN  position.pdfY = RSub(RSub(getViewport(100, 0).height, FromInt(position.canvasY)),
                                   FromInt(position.canvasHeight))]_vars

\* the elements of seq at the indices in S, in their order
RECURSIVE Pick(_, _)
Pick(seq, S) ==
    IF seq = <<>>
    THEN <<>>
    ELSE LET rest == Pick(Tail(seq), { k - 1 : k \in S \ {1} })
         IN  IF 1 \in S THEN <<Head(seq)>> \o rest ELSE rest

\* C24: an area is never modified after its creation.  A step that completes
\* a drag keeps every listed area as it is and appends the new one; every
\* other step (page change, zoom, highlight, removal, clearing, redraw)
\* leaves the list with some of its areas, each with the id, text,
\* screenshot, position and timestamp it had, in the order they had.
C24_AreasNeverModified ==
    [][IF lastOp'.op \in EmitOps
       THEN /\ Len(selectedAreas') = Len(selectedAreas) + 1
            /\ SubSeq(selectedAreas', 1, Len(selectedAreas)) = selectedAreas
       ELSE \E S \in SUBSET (1..Len(selectedAreas)) :
               selectedAreas' = Pick(selectedAreas, S)]_vars

\* two areas with different timestamps are listed, one of them highlighted,
\* the page has been turned and the zoom changed since the first was created,
\* and a redraw has just painted
C24_Witness ==
    /\ Len(selectedAreas) = 2
    /\ selectedAreas[1].timestamp # selectedAreas[2].timestamp
    /\ selectedAreas[1].position.page = 1
    /\ selectedAreas[1].position.pdfWidth = FromInt(11)
    /\ pageNumber = 2
    /\ scale = 200
    /\ ~IsNull(highlightedArea)
    /\ lastOp.op = "drawSelectionBoxes"

OverlappingItems(call) ==
    LET items == TextItems(call.pdfDoc, call.area.page)
    IN  { k \in 1..Len(items) : ItemOverlaps(items[k], call.area) }

ExtractOfDocumentNeverEmpty ==
    (lastOp.op = "extractTextFromArea" /\ Val(lastOp.arg).pdfDoc # 0) =>
       /\ Val(lastOp.arg).text # <<>>
       /\ (Val(lastOp.arg).outcome = Resolved /\ OverlappingItems(Val(lastOp.arg)) = {})
             => Val(lastOp.arg).text = NoTextDetected
       /\ Val(lastOp.arg).outcome # Resolved => Val(lastOp.arg).text = ErrorExtractingText

\* the estimated box of a text run: from its position, str.length * fontSize
\* * 0.5 wide and fontSize high
RunBox(item) ==
    CHOOSE b \in
        { [left   |-> FromInt(item.transform[5]),
           right  |-> RAdd(FromInt(item.transform[5]), Frac(Len(item.str) * fontSize, 2)),
           bottom |-> FromInt(item.transform[6]),
           top    |-> FromInt(item.transform[6] + fontSize)] :
          fontSize \in {Sqrt(item.transform[1] * item.transform[1]
                             + item.transform[2] * item.transform[2])} } : TRUE

\* run.right > rect.left, run.left < rect.right, run.top > rect.bottom and
\* run.bottom < rect.top
RunOverlapsRect(run, rect) ==
    /\ RLess(rect.x, run.right)
    /\ RLess(run.left, RAdd(rect.x, rect.width))
    /\ RLess(rect.y, run.top)
    /\ RLess(run.bottom, RAdd(rect.y, rect.height))

\* the strings of the runs of a call's page that overlap its rectangle, in
\* run order, with one space between two of them
RECURSIVE JoinOverlapping(_, _)
JoinOverlapping(items, rect) ==
    IF items = <<>> THEN <<>>
    ELSE LET rest == JoinOverlapping(Tail(items), rect)
         IN  IF ~RunOverlapsRect(RunBox(Head(items)), rect) THEN rest
             ELSE IF \E k \in 1..Len(items) - 1 : RunOverlapsRect(RunBox(Tail(items)[k]), rect)
                  THEN Head(items).str \o <<Space>> \o rest
                  ELSE Head(items).str

\* a call that ran its loop and found at least one overlapping run
FoundRuns(call) ==
    /\ call.pdfDoc # 0
    /\ call.outcome = Resolved
    /\ \E k \in 1..Len(TextItems(call.pdfDoc, call.area.page)) :
          RunOverlapsRect(RunBox(TextItems(call.pdfDoc, call.area.page)[k]), call.area)

\* C27 as stated: extractTextFromArea returns the strings of exactly the runs
\* whose estimated box overlaps the rectangle, joined by single spaces in run
\* order.
C27_ExtractJoinsOverlappingRuns ==
    (lastOp.op = "extractTextFromArea" /\ FoundRuns(Val(lastOp.arg))) =>
       Val(lastOp.arg).text =
          JoinOverlapping(TextItems(Val(lastOp.arg).pdfDoc, Val(lastOp.arg).area.page),
                          Val(lastOp.arg).area)

\* C27, amended: the result is that join with the white space at its two
\* ends removed, and the sentinel when nothing remains.
C27_ExtractJoinsAndTrims ==
    (lastOp.op = "extractTextFromArea" /\ FoundRuns(Val(lastOp.arg))) =>
       Val(lastOp.arg).text =
          OrElse(Trim(JoinOverlapping(TextItems(Val(lastOp.arg).pdfDoc, Val(lastOp.arg).area.page),
                                      Val(lastOp.arg).area)),
                 NoTextDetected)

\* the rectangle [4,10]x[50,54] covers part of the box of "ab" and the box of
\* "cd" and returned "ab cd"
C27_Witness ==
    /\ lastOp.op = "extractTextFromArea"
    /\ Val(lastOp.arg).outcome = Resolved
    /\ Val(lastOp.arg).area.x = FromInt(4)
    /\ Val(lastOp.arg).area.y = FromInt(50)
    /\ Val(lastOp.arg).area.width = FromInt(6)
    /\ Val(lastOp.arg).area.height = FromInt(4)
    /\ Val(lastOp.arg).text = <<"a", "b", Space, "c", "d">>

\* the rectangle [6,8]x[50,58] touches the right edge of "ab" and the left
\* edge of "cd" and returned the sentinel
EdgeTouchIsExcluded ==
    /\ lastOp.op = "extractTextFromArea"
    /\ Val(lastOp.arg).outcome = Resolved
    /\ Val(lastOp.arg).pdfDoc = 1
    /\ Val(lastOp.arg).area.page = 1
    /\ Val(lastOp.arg).area.x = FromInt(6)
    /\ Val(lastOp.arg).area.y = FromInt(50)
    /\ Val(lastOp.arg).area.width = FromInt(2)
    /\ Val(lastOp.arg).area.height = FromInt(8)
    /\ Val(lastOp.arg).text = NoTextDetected

\* C28: while selection mode is off, a pointer-down over the page leaves the
\* gesture state as it is (isSelecting, startPos and currentPos unchanged)
\* and starts no area creation: no drag begins.
C28_PressWhileModeOffChangesNothing ==
    [][(~isSelectionMode /\ lastOp'.op \in {"pointer", "pointer.unhandled"}) =>
          /\ isSelecting' = isSelecting
          /\ startPos' = startPos
          /\ currentPos' = currentPos
          /\ completions' = completions
          /\ selectedAreas' = selectedAreas]_vars

\* the button went down over the page with the mode off and the gesture is
\* idle
C28_Witness ==
    /\ ~isSelectionMode
    /\ lastOp.op = "pointer.unhandled"
    /\ ~IsNull(drag)
    /\ ~isSelecting
    /\ IsNull(startPos)
    /\ IsNull(currentPos)

\* C29: an overlay redraw that cannot paint does no harm.  When the effect
\* runs without a document or without the canvases it starts nothing; when
\* the page lookup of a started redraw fails (a page out of range included)
\* the failure goes no further than the catch.  Neither sets the error
\* message, and neither changes the viewer, the list, the gesture, what the
\* two canvases show or any other suspended call.
C29_FailedRedrawIsHarmless ==
    [][(\/ lastOp'.op = "drawSelectionBoxes.rejected"
        \/ (lastOp'.op = "redrawEffect" /\ ~CanvasMounted)) =>
          /\ error' = error
          /\ UNCHANGED <<viewerVars, markVars, gestureVars, asyncVars>>
          /\ UNCHANGED <<overlay, renderVars>>
          /\ IF lastOp'.op = "redrawEffect"
             THEN redraws' = redraws
             ELSE Len(redraws') = Len(redraws) - 1]_vars

\* the page lookup of a redraw failed while an area was listed; the page is
\* still shown without an error message
C29_Witness ==
    /\ lastOp.op = "drawSelectionBoxes.rejected"
    /\ Len(selectedAreas) > 0
    /\ error = ""
    /\ CanvasMounted

\* the effect ran without a document and started no redraw
RedrawWithoutDocument ==
    /\ lastOp.op = "redrawEffect"
    /\ pdfDoc = 0
    /\ redraws = <<>>
    /\ error = ""

\* what a redraw for the state now shown paints: the areas of the current
\* page, at the current scale, the highlighted one dashed
CurrentRects ==
    PaintedRects(currentPageAreas(selectedAreas, pageNumber), highlightedArea,
                 getViewport(100, 0), getViewport(scale, 0))

\* C30: every change of the list, the highlight, the page or the scale runs
\* the redraw effect, and once every redraw in flight has completed the
\* selection canvas shows exactly the rectangles of the areas of the current
\* page at the current scale: a redraw started for an earlier page or scale
\* leaves nothing of its output behind when it resolves late.
C30_SettledOverlayIsCurrent ==
    (OverlayEffectRan /\ redraws = <<>> /\ CanvasMounted) => overlay.rects = CurrentRects

\* the first half of the claim: a step that changes the list, the highlight,
\* the page, the scale or the document leaves the redraw effect pending
ChangeTriggersRedraw ==
    [][(lastOp'.op # "redrawEffect"
        /\ <<selectedAreas, highlightedArea, pageNumber, scale, pdfDoc>>'
              # <<selectedAreas, highlightedArea, pageNumber, scale, pdfDoc>>)
          => OverlayEffectPending']_vars

\* C31: after a scale or page change, once the page render and the overlay
\* redraw it triggered have both completed, the selection canvas has the
\* width and height of the page canvas.
C31_OverlaySizedAsCanvas ==
    (ViewSettled /\ CanvasMounted /\ renderCount > 1 /\ (scale # 100 \/ pageNumber # 1)) =>
        /\ overlay.width = canvas.width
        /\ overlay.height = canvas.height

\* the gesture machine is in Idle
GestureIdle == ~isSelecting /\ IsNull(startPos) /\ IsNull(currentPos)

\* handleMouseUp has just been invoked by a pointer-up or a pointer-leave
ReleaseReceived == lastOp.op \in ReleaseEvents

ReleaseWithDocumentReturnsToIdle == (ReleaseReceived /\ pdfDoc # 0) ~> GestureIdle

\* a release of a drag in progress found no document
ReleasedWithoutDocument == ReleaseReceived /\ isSelecting /\ pdfDoc = 0 /\ completions = <<>>

\* a length of the canvas in page units: divided by the scale of the drag
Unscaled(len, scalePct) == Frac(len * 100, scalePct)

\* the box of a text run measured from the top-left corner of the page, as
\* the drag is: left, right, top and bottom
RunBoxFromTop(item) ==
    CHOOSE b \in
        { [left   |-> FromInt(item.transform[5]),
           right  |-> RAdd(FromInt(item.transform[5]), Frac(Len(item.str) * fontSize, 2)),
           top    |-> FromInt(PageSize.height - item.transform[6] - fontSize),
           bottom |-> FromInt(PageSize.height - item.transform[6])] :
          fontSize \in {Sqrt(item.transform[1] * item.transform[1]
                             + item.transform[2] * item.transform[2])} } : TRUE

\* the drag rectangle of a suspended handleMouseUp, in page units from the
\* top-left corner, overlaps the box of a text run
DragCoversRun(c, item) ==
    \E b \in {RunBoxFromTop(item)} :
       /\ RLess(Unscaled(c.box.canvasX, c.scale), b.right)
       /\ RLess(b.left, Unscaled(c.box.canvasX + c.box.canvasWidth, c.scale))
       /\ RLess(Unscaled(c.box.canvasY, c.scale), b.bottom)
       /\ RLess(b.top, Unscaled(c.box.canvasY + c.box.canvasHeight, c.scale))

\* C33: the rectangle handleMouseUp hands to extractTextFromArea is the drag
\* rectangle flipped once into the bottom-left space of the page: its x,
\* width and height are those of the drag divided by the scale, its y is the
\* page height minus the unscaled top minus the unscaled height; the matcher
\* compares it with transform[5] of the runs as it is, so a run is matched
\* exactly when the drag covers it on the page.
C33_MatcherGetsRectFlippedOnce ==
    \A i \in 1..Len(completions) :
       ~IsNull(completions[i].area) =>
          \E c \in {completions[i]} : \E area \in {Val(c.area)} :
             /\ area.x = Unscaled(c.box.canvasX, c.scale)
             /\ area.width = Unscaled(c.box.canvasWidth, c.scale)
             /\ area.height = Unscaled(c.box.canvasHeight, c.scale)
             /\ area.y = RSub(RSub(FromInt(PageSize.height), Unscaled(c.box.canvasY, c.scale)),
                              Unscaled(c.box.canvasHeight, c.scale))
             /\ \A k \in 1..Len(TextItems(c.pdfDoc, c.currentPage)) :
                   \E item \in {TextItems(c.pdfDoc, c.currentPage)[k]} :
                      ItemOverlaps(item, area) <=> DragCoversRun(c, item)

\* a drag made at 200% on page 1 is about to be matched: it covers the first
\* run of the page and not the last
C33_Witness ==
    \E i \in 1..Len(completions) :
       /\ ~IsNull(completions[i].area)
       /\ completions[i].scale = 200
       /\ completions[i].currentPage = 1
       /\ ItemOverlaps(TextItems(1, 1)[1], Val(completions[i].area))
       /\ ~ItemOverlaps(TextItems(1, 1)[3], Val(completions[i].area))

\* C34, as claimed: one drag adds at most one area.  In OneDragSpec every
\* listed area comes from the drag of the last press, whatever sequence of
\* pointer-up and pointer-leave released it, so the list never holds two.
C34_OneDragAddsAtMostOneArea == Len(selectedAreas) <= 1

\* C35, as claimed: the completion of a suspended handleMouseUp never alters
\* the gesture state of a later drag.  A drag of the pointer in progress
\* (drag not null) while a handleMouseUp is suspended was started after the
\* release that suspended it; the step that ends the suspended call leaves
\* isSelecting, startPos and currentPos of that drag as they are.
C35_CompletionLeavesLaterDragAlone ==
    [][ (Len(completions') < Len(completions) /\ ~IsNull(drag) /\ isSelecting)
            => UNCHANGED gestureVars ]_vars

\* C36, as claimed: every renderPage call and every drawSelectionBoxes call
\* is issued for a page the document it is issued against has, also while a
\* shorter document is loaded over another one, so that loading a shorter
\* document never sets 'Error displaying PDF page.'.
C36_CallsAreForPagesOfTheirDocument ==
    /\ \A k \in 1..Len(renders) : PageExists(renders[k].pdf, renders[k].pageNum)
    /\ \A k \in 1..Len(redraws) : PageExists(redraws[k].pdfDoc, redraws[k].pageNumber)
    /\ error # "Error displaying PDF page."

\* What does hold under ReloadBatchedSpec: when every load applies
\* its updates in one batch, the calls are issued for pages of their document
\* and a page is always displayed.
BatchedLoadsCallForExistingPages ==
    /\ \A k \in 1..Len(renders) : PageExists(renders[k].pdf, renders[k].pageNum)
    /\ \A k \in 1..Len(redraws) : PageExists(redraws[k].pdfDoc, redraws[k].pageNumber)
    /\ error # "Error displaying PDF page."

\* the page input was just changed to a text that parseInt reads as NaN or
\* as a number outside 1..numPages
PageInputRejected ==
    /\ lastOp.op = "pageInput"
    /\ \E newPage \in {parseInt(Val(lastOp.arg))} :
          IsNull(newPage) \/ Val(newPage) < 1 \/ Val(newPage) > numPages

\* C37: once a document is loaded, 1 <= pageNumber <= numPages after every
\* sequence of previous-page, next-page and page-input operations, and a page
\* input that is not a number or is outside 1..numPages leaves the page as it
\* is.
C37_PageStaysInRange ==
    /\ [](pdfDoc # 0 => (1 <= pageNumber /\ pageNumber <= numPages))
    /\ [][PageInputRejected' => pageNumber' = pageNumber]_vars

\* page 2 of a two-page document is shown and the input was just changed to
\* a text that is refused
C37_Witness ==
    /\ pdfDoc # 0 /\ numPages = 2 /\ pageNumber = 2
    /\ PageInputRejected

\* C38, as claimed: every area of the list belongs to the document that is
\* loaded.  No listed area is on a page the document does not have, and the
\* step that puts another document in pdfDoc leaves no area and no highlight.
C38_AreasBelongToLoadedDocument ==
    /\ [](pdfDoc # 0 => \A k \in 1..Len(selectedAreas) :
                            selectedAreas[k].position.page <= numPages)
    /\ [][pdfDoc' # pdfDoc => (selectedAreas' = << >> /\ IsNull(highlightedArea'))]_vars

\* C39, as claimed: when loads overlap, once all of them have settled the
\* document displayed (pdfDoc, numPages) is that of the file chosen last,
\* the one the file state holds, and loading is false only while no load is
\* in flight.
C39_LastChosenFileIsDisplayed ==
    /\ (loads = << >> /\ pdfDoc # 0) =>
          (pdfDoc = file /\ numPages = NumPagesOf(file))
    /\ ~loading => loads = << >>

=============================================================================
